---------------------------- MODULE Spec2Model ----------------------------
(***************************************************************************)
(* A model of the element store of the element-context-capture MCP server: *)
(* ElementStorage (storage.js), with the record validation and             *)
(* sanitisation of schema.js that ElementStorage.add runs.                 *)
(*                                                                         *)
(* Strings are sequences of one-character strings, so that toLowerCase,    *)
(* includes, startsWith, length and substring are computed as JavaScript   *)
(* computes them.  Two multi-character constructs are single units of the  *)
(* alphabet: SCRIPT_OPEN / SCRIPT_CLOSE (the "<script" and "</script>" the *)
(* first replace() of sanitizeElement looks for) and ON_HANDLER (one       *)
(* whole ` onxxx="..."` attribute, what the second replace() removes).     *)
(* A JavaScript value is a record [t, s, n]: its typeof-like tag, its      *)
(* characters when it is a string, its value when it is a number.          *)
(***************************************************************************)
EXTENDS Integers, Sequences, FiniteSets, TLC

VARIABLES
    elements,      \* this.elements: the Map, as the sequence of its entries in iteration order
    cleanupTimer,  \* this.cleanupTimer: TRUE while the interval timer is set, FALSE once null
    now,           \* Date.now()
    admitOrder,    \* history: the stored keys, ordered by the admit call that wrote each entry
    last,          \* history: the last call made on the store, its argument and what it returned
    wss,           \* this.wss: TRUE while the WebSocket listener exists, FALSE when null
    clients,       \* this.clients: the Set of sockets, as the sequence of its iteration order
    readyState,    \* ws.readyState of each session's socket ("CLOSED" when it has none)
    receiving,     \* the sessions whose socket still delivers 'message' events
    broken,        \* the sessions whose transport has failed while readyState is still OPEN
    welcomeCount,  \* history: the WELCOME messages sent to each session's present socket
    wsLast,        \* history: the last WebSocket event handled and the messages it sent
    mcpLast,       \* history: the last MCP request handled and its answer
    proc,          \* the operating-system processes of the server: one record each
    lockfile,      \* .server.lock: "none", or the process whose pid it holds
    foreign,       \* the ports other programs are listening on
    worker,        \* the globals of the extension's background service worker
    browser        \* the worker's environment: its sockets, timers and callers

storeVars == <<elements, cleanupTimer, now, admitOrder, last>>
wsVars == <<wss, clients, readyState, receiving, broken, welcomeCount, wsLast>>
vars == <<elements, cleanupTimer, now, admitOrder, last,
          wss, clients, readyState, receiving, broken, welcomeCount, wsLast,
          mcpLast, proc, lockfile, foreign, worker, browser>>

procVars == <<proc, lockfile, foreign>>
extVars == <<worker, browser>>

----------------------------------------------------------------------------
(* Bounds and configuration *)

\* The clock stops advancing at MaxTime.
MaxTime == 2

\* options.maxElements, scaled down from the default 50.
maxElements == 3

\* options.ttl, scaled down from the default 3600000 ms.
ttl == 1

\* The size ceilings of sanitizeElement, scaled down from 50000 / 10000 / 1000000.
MAX_HTML_SIZE == 4
MAX_TEXT_SIZE == 3
MAX_SCREENSHOT_SIZE == 2

----------------------------------------------------------------------------
(* JavaScript values and strings *)

JStr(s) == [t |-> "string", s |-> s, n |-> 0]
JNum(n) == [t |-> "number", s |-> <<>>, n |-> n]
JNull == [t |-> "null", s |-> <<>>, n |-> 0]
JAbsent == [t |-> "absent", s |-> <<>>, n |-> 0]

\* ToBoolean(v), as `if (v)` and `!v` evaluate it
Truthy(v) ==
    \/ v.t = "string" /\ v.s # <<>>
    \/ v.t = "number" /\ v.n # 0

SCRIPT_OPEN == "<script"
SCRIPT_CLOSE == "</script>"
ON_HANDLER == " onclick=\"x\""
TRUNCATED == "... [TRUNCATED]"
REDACTED == <<"[REDACTED]">>

\* String.prototype.toLowerCase on one character
LowerChar(c) ==
    CASE c = "A" -> "a"
      [] c = "B" -> "b"
      [] c = "D" -> "d"
      [] c = "K" -> "k"
      [] c = "T" -> "t"
      [] c = "X" -> "x"
      [] OTHER -> c

toLowerCase(s) == [i \in 1..Len(s) |-> LowerChar(s[i])]

\* String.prototype.includes
includes(s, sub) ==
    \E i \in 0..(Len(s) - Len(sub)) :
        \A j \in 1..Len(sub) : s[i + j] = sub[j]

\* String.prototype.startsWith
startsWith(s, pre) ==
    /\ Len(pre) <= Len(s)
    /\ \A j \in 1..Len(pre) : s[j] = pre[j]

\* String.prototype.substring(0, n)
substring(s, n) == SubSeq(s, 1, IF n < Len(s) THEN n ELSE Len(s))


----------------------------------------------------------------------------
(* schema.js *)

\* the strings the code compares against
HTTP == <<"h", "t", "t", "p">>
sensitiveAttrs ==
    { <<"p", "a", "s", "s", "w", "o", "r", "d">>,
      <<"t", "o", "k", "e", "n">>,
      <<"s", "e", "c", "r", "e", "t">>,
      <<"k", "e", "y">>,
      <<"a", "u", "t", "h">> }

\* validateCapturedElement with the selector check dropped
validateNoSelectorCheck(data) ==
    /\ data.isObject
    /\ \A f \in {"id", "timestamp", "url", "selector", "html", "text"} :
           data[f].t # "absent"
    /\ data.id.t = "string" /\ data.id.s # <<>>
    /\ data.timestamp.t = "number" /\ data.timestamp.n > 0
    /\ data.url.t = "string" /\ startsWith(data.url.s, HTTP)

\* validateCapturedElement(data)
validateCapturedElement(data) ==
    /\ data.isObject                                        \* !data || typeof data !== 'object'
    /\ \A f \in {"id", "timestamp", "url", "selector", "html", "text"} :
           data[f].t # "absent"                             \* field in data
    /\ data.id.t = "string" /\ data.id.s # <<>>
    /\ data.timestamp.t = "number" /\ data.timestamp.n > 0
    /\ data.url.t = "string" /\ startsWith(data.url.s, HTTP)
    /\ data.selector.t = "string" /\ data.selector.s # <<>>

\* s without its elements at the positions i..j
CutOut(s, i, j) == SubSeq(s, 1, i - 1) \o SubSeq(s, j + 1, Len(s))

\* html.replace(/<script\b[^<]*(?:(?!<\/script>)<[^<]*)*<\/script>/gi, ''): every
\* stretch from a "<script" to the first "</script>" after it is removed, left to
\* right; a "<script" that no "</script>" follows is left alone.
RECURSIVE stripScriptsFrom(_, _)
stripScriptsFrom(s, from) ==
    LET opens == {i \in from..Len(s) : s[i] = SCRIPT_OPEN
                     /\ \E j \in (i + 1)..Len(s) : s[j] = SCRIPT_CLOSE}
    IN  IF opens = {} THEN s
        ELSE LET i == CHOOSE x \in opens : \A y \in opens : x <= y
                 j == CHOOSE x \in (i + 1)..Len(s) :
                          /\ s[x] = SCRIPT_CLOSE
                          /\ \A y \in (i + 1)..(x - 1) : s[y] # SCRIPT_CLOSE
             IN  stripScriptsFrom(CutOut(s, i, j), i)

stripScripts(s) == stripScriptsFrom(s, 1)

\* html.replace(/\son\w+="[^"]*"/gi, '')
stripHandlers(s) == SelectSeq(s, LAMBDA c : c # ON_HANDLER)

\* redaction that compares the key as written, without toLowerCase
redactCaseSensitive(attributes) ==
    { IF \E w \in sensitiveAttrs : includes(a.k, w)
      THEN [k |-> a.k, v |-> REDACTED]
      ELSE a : a \in attributes }

\* the redaction loop over element.attributes
redact(attributes) ==
    { IF \E w \in sensitiveAttrs : includes(toLowerCase(a.k), w)
      THEN [k |-> a.k, v |-> REDACTED]
      ELSE a : a \in attributes }

\* truncation that marks an oversized string without cutting it
truncateMarksOnly(v, max) ==
    IF Truthy(v) /\ v.t = "string" /\ Len(v.s) > max
    THEN JStr(Append(v.s, TRUNCATED))
    ELSE v

\* truncation that cuts a string of exactly max units too
truncateAtCeiling(v, max) ==
    IF Truthy(v) /\ v.t = "string" /\ Len(v.s) >= max
    THEN JStr(Append(substring(v.s, max), TRUNCATED))
    ELSE v

\* the `if (x && x.length > MAX) x = x.substring(0, MAX) + '... [TRUNCATED]'` of html and text
truncate(v, max) ==
    IF Truthy(v) /\ v.t = "string" /\ Len(v.s) > max
    THEN JStr(Append(substring(v.s, max), TRUNCATED))
    ELSE v

\* a screenshot cut to its ceiling instead of dropped
cutOversized(screenshot) ==
    IF /\ Truthy(screenshot)
       /\ screenshot.t = "string"
       /\ Len(screenshot.s) > MAX_SCREENSHOT_SIZE
    THEN JStr(substring(screenshot.s, MAX_SCREENSHOT_SIZE))
    ELSE screenshot

\* `if (screenshot && screenshot.length > MAX_SCREENSHOT_SIZE) screenshot = ''`
dropOversized(screenshot) ==
    IF /\ Truthy(screenshot)
       /\ screenshot.t = "string"
       /\ Len(screenshot.s) > MAX_SCREENSHOT_SIZE
    THEN JStr(<<>>)
    ELSE screenshot

\* sanitizeElement(element): [threw, value, caller, shares].  A truthy html that is no
\* string has no replace method: the call raises a TypeError.  value is the record
\* returned; caller is the record the caller passed, as the call leaves it; shares
\* names the fields whose object the returned record and the caller's record have
\* in common.  `{ ...element }` copies the fields, not the objects they refer to, so
\* the redaction loop assigns into the caller's attributes object.
sanitizeElement(element) ==
    IF Truthy(element.html) /\ element.html.t # "string"
    THEN [threw |-> TRUE, value |-> element, caller |-> element, shares |-> {}]
    ELSE LET html1 == IF Truthy(element.html)
                      THEN JStr(stripHandlers(stripScripts(element.html.s)))
                      ELSE element.html
             big == /\ Truthy(element.screenshot)
                    /\ element.screenshot.t = "string"
                    /\ Len(element.screenshot.s) > MAX_SCREENSHOT_SIZE
         IN  [threw |-> FALSE,
              value |-> [element EXCEPT
                  !.html = truncate(html1, MAX_HTML_SIZE),
                  !.attributes = redact(element.attributes),
                  !.text = truncate(element.text, MAX_TEXT_SIZE),
                  !.screenshot = dropOversized(element.screenshot),
                  !.screenshotTruncated = IF big THEN TRUE ELSE element.screenshotTruncated],
              caller |-> [element EXCEPT !.attributes = redact(element.attributes)],
              shares |-> {"attributes"}]

----------------------------------------------------------------------------
(* storage.js: the methods of ElementStorage, as functions of the Map (els) and of
   Date.now() (t).  Each yields the Map it leaves and what it returns. *)

\* the position of key id in the Map, 0 when it has none
IndexOf(els, id) ==
    IF \E i \in 1..Len(els) : els[i].key = id
    THEN CHOOSE i \in 1..Len(els) : els[i].key = id
    ELSE 0

Keys(els) == {els[i].key : i \in 1..Len(els)}

\* Map.prototype.delete
MapDelete(els, id) == SelectSeq(els, LAMBDA e : e.key # id)

\* Map.prototype.set: an existing key keeps its position, a new key goes last
MapSet(els, entry) ==
    IF IndexOf(els, entry.key) # 0
    THEN [els EXCEPT ![IndexOf(els, entry.key)] = entry]
    ELSE Append(els, entry)

\* now > entry.expiresAt
Expired(e, t) == t > e.expiresAt

\* add without the eviction of the oldest key
addNoEvict(els, element, t) ==
    IF ~validateCapturedElement(element)
    THEN [elements |-> els, ret |-> "false", evicted |-> <<>>]
    ELSE LET san == sanitizeElement(element)
         IN  IF san.threw
             THEN [elements |-> els, ret |-> "throw", evicted |-> <<>>]
             ELSE [elements |-> MapSet(els, [key |-> san.value.id.s,
                                             data |-> san.value,
                                             expiresAt |-> t + ttl]),
                   ret |-> "true",
                   evicted |-> <<>>]

\* add(element): ret is "false" (invalid), "throw" (sanitizeElement raised) or "true"
add(els, element, t) ==
    IF ~validateCapturedElement(element)
    THEN [elements |-> els, ret |-> "false", evicted |-> <<>>]
    ELSE LET san == sanitizeElement(element)
         IN  IF san.threw
             THEN [elements |-> els, ret |-> "throw", evicted |-> <<>>]
             ELSE LET full == Len(els) >= maxElements
                      kept == IF full THEN Tail(els) ELSE els
                      entry == [key |-> san.value.id.s,
                                data |-> san.value,
                                expiresAt |-> t + ttl]
                  IN  [elements |-> MapSet(kept, entry),
                       ret |-> "true",
                       evicted |-> IF full THEN <<els[1].key>> ELSE <<>>]

\* get without the expiry check
getNoExpiryCheck(els, id, t) ==
    LET i == IndexOf(els, id)
    IN  IF i = 0 THEN [elements |-> els, out |-> <<>>]
        ELSE [elements |-> els, out |-> <<els[i].data>>]

\* get that hides an expired entry and leaves it in the Map
getNoDelete(els, id, t) ==
    LET i == IndexOf(els, id)
    IN  IF i = 0 \/ Expired(els[i], t)
        THEN [elements |-> els, out |-> <<>>]
        ELSE [elements |-> els, out |-> <<els[i].data>>]

\* get(id): out is <<entry.data>>, or <<>> for null
get(els, id, t) ==
    LET i == IndexOf(els, id)
    IN  IF i = 0 THEN [elements |-> els, out |-> <<>>]
        ELSE IF Expired(els[i], t)
             THEN [elements |-> MapDelete(els, id), out |-> <<>>]
             ELSE [elements |-> els, out |-> <<els[i].data>>]

\* a sort that puts the later of two equal timestamps first
RECURSIVE sortTiesReversed(_)
sortTiesReversed(ds) ==
    IF ds = <<>> THEN <<>>
    ELSE LET x == ds[Len(ds)]
             sorted == sortTiesReversed(SubSeq(ds, 1, Len(ds) - 1))
             k == Cardinality({i \in 1..Len(sorted) :
                                  sorted[i].timestamp.n > x.timestamp.n})
         IN  SubSeq(sorted, 1, k) \o <<x>> \o SubSeq(sorted, k + 1, Len(sorted))

\* Array.prototype.sort((a, b) => b.timestamp - a.timestamp): stable, descending
RECURSIVE sortNewestFirst(_)
sortNewestFirst(ds) ==
    IF ds = <<>> THEN <<>>
    ELSE LET x == ds[Len(ds)]
             sorted == sortNewestFirst(SubSeq(ds, 1, Len(ds) - 1))
             k == Cardinality({i \in 1..Len(sorted) :
                                  sorted[i].timestamp.n >= x.timestamp.n})
         IN  SubSeq(sorted, 1, k) \o <<x>> \o SubSeq(sorted, k + 1, Len(sorted))

\* getAll()
getAll(els, t) ==
    LET valid == SelectSeq(els, LAMBDA e : ~Expired(e, t))
    IN  [elements |-> valid,
         out |-> sortNewestFirst([i \in 1..Len(valid) |-> valid[i].data])]

\* remove that reports a removal whether or not the Map held the id
removeReportsAlways(els, id) ==
    [elements |-> MapDelete(els, id), ret |-> TRUE]

\* remove(id)
remove(els, id) ==
    [elements |-> MapDelete(els, id), ret |-> IndexOf(els, id) # 0]

\* clear that returns the number of entries it removed
clearReturnsCount(els) ==
    [elements |-> <<>>, ret |-> JNum(Len(els)), count |-> Len(els)]

\* clear(): returns nothing; the count goes to the log
clear(els) == [elements |-> <<>>, ret |-> JAbsent, count |-> Len(els)]

\* x.toLowerCase().includes(lowerQuery), for a field that is a string
FieldMatches(v, lowerQuery) == includes(toLowerCase(v.s), lowerQuery)

\* the filter callback of search: "match", "nomatch", or "throw" when the || chain
\* reaches a field that is no string (it has no toLowerCase)
searchTest(element, lowerQuery) ==
    IF element.selector.t # "string" THEN "throw"
    ELSE IF FieldMatches(element.selector, lowerQuery) THEN "match"
    ELSE IF element.text.t # "string" THEN "throw"
    ELSE IF FieldMatches(element.text, lowerQuery) THEN "match"
    ELSE IF element.html.t # "string" THEN "throw"
    ELSE IF FieldMatches(element.html, lowerQuery) THEN "match"
    ELSE IF element.url.t # "string" THEN "throw"
    ELSE IF FieldMatches(element.url, lowerQuery) THEN "match"
    ELSE "nomatch"

\* search(query)
search(els, query, t) ==
    LET lowerQuery == toLowerCase(query)
        all == getAll(els, t)
    IN  IF \E i \in 1..Len(all.out) : searchTest(all.out[i], lowerQuery) = "throw"
        THEN [elements |-> all.elements, threw |-> TRUE, out |-> <<>>]
        ELSE [elements |-> all.elements, threw |-> FALSE,
              out |-> SelectSeq(all.out,
                                LAMBDA e : searchTest(e, lowerQuery) = "match")]

SetMin(S) == CHOOSE x \in S : \A y \in S : x <= y
SetMax(S) == CHOOSE x \in S : \A y \in S : x >= y

\* getStats()
getStats(els, t) ==
    LET all == getAll(els, t)
        stamps == {all.out[i].timestamp.n : i \in 1..Len(all.out)}
    IN  [elements |-> all.elements,
         stats |-> [total |-> Len(all.out),
                    maxElements |-> maxElements,
                    ttl |-> ttl,
                    oldestTimestamp |-> IF Len(all.out) > 0 THEN JNum(SetMin(stamps)) ELSE JNull,
                    newestTimestamp |-> IF Len(all.out) > 0 THEN JNum(SetMax(stamps)) ELSE JNull]]

\* a sweep that removes nothing
cleanupKeepsAll(els, t) == [elements |-> els]

\* cleanup that also removes an entry at the instant of its expiry
cleanupAtExpiry(els, t) == [elements |-> SelectSeq(els, LAMBDA e : t < e.expiresAt)]

\* cleanup()
cleanup(els, t) == [elements |-> SelectSeq(els, LAMBDA e : ~Expired(e, t))]

\* destroy that clears the entries and leaves the interval timer set
destroyLeavesTimer(els, timer) ==
    [elements |-> clear(els).elements, cleanupTimer |-> timer]

\* destroy(): clearInterval when the timer is set, then clear()
destroy(els, timer) ==
    [elements |-> clear(els).elements, cleanupTimer |-> FALSE]

----------------------------------------------------------------------------
(* The inputs the callers pass *)

Element(id, timestamp, url, selector, html, text, attributes, screenshot) ==
    [isObject |-> TRUE, id |-> id, timestamp |-> timestamp, url |-> url,
     selector |-> selector, html |-> html, text |-> text,
     attributes |-> attributes, screenshot |-> screenshot,
     screenshotTruncated |-> FALSE]

\* null, undefined or a primitive in the place of the element
NotAnObject ==
    [isObject |-> FALSE, id |-> JAbsent, timestamp |-> JAbsent, url |-> JAbsent,
     selector |-> JAbsent, html |-> JAbsent, text |-> JAbsent,
     attributes |-> {}, screenshot |-> JAbsent, screenshotTruncated |-> FALSE]

KeyA == <<"a">>
KeyB == <<"b">>
KeyC == <<"c">>
KeyD == <<"d">>
IdKeys == {KeyA, KeyB, KeyC, KeyD}

UrlPlain == JStr(<<"h", "t", "t", "p">>)
UrlUpper == JStr(<<"h", "t", "t", "p", "X">>)

\* well-formed records
ElemA ==
    Element(JStr(KeyA), JNum(1), UrlPlain, JStr(<<"D", "i", "v">>),
            JStr(<<"x">>), JStr(<<"k">>),
            {[k |-> <<"T", "o", "k", "e", "n">>, v |-> <<"s">>],
             [k |-> <<"i", "d">>, v |-> <<"m">>]},
            JStr(<<"p", "n", "g">>))
ElemB ==
    Element(JStr(KeyB), JNum(1), UrlUpper, JStr(<<"a">>),
            JStr(<<SCRIPT_OPEN, "b", SCRIPT_CLOSE, "t", ON_HANDLER>>),
            JStr(<<"a", "b", "d", "k">>), {}, JStr(<<"p", "n">>))
ElemC ==
    Element(JStr(KeyC), JNum(2), UrlPlain, JStr(<<"b">>),
            JStr(<<"T">>), JStr(<<>>), {}, JAbsent)
\* accepted by validateCapturedElement although its text is null
ElemD ==
    Element(JStr(KeyD), JNum(2), UrlPlain, JStr(<<"d">>),
            JStr(<<"x">>), JNull, {}, JAbsent)

\* malformed records: one defect each, in a record that is otherwise ElemA
Malformed ==
    { NotAnObject,
      [ElemA EXCEPT !.text = JAbsent],
      [ElemA EXCEPT !.id = JNum(5)],
      [ElemA EXCEPT !.timestamp = JNum(0)],
      [ElemA EXCEPT !.timestamp = JStr(<<"1">>)],
      [ElemA EXCEPT !.url = JStr(<<"f", "t", "p">>)],
      [ElemA EXCEPT !.selector = JStr(<<>>)],
      [ElemA EXCEPT !.html = JNum(123)] }

Inputs == {ElemA, ElemB, ElemC, ElemD} \cup Malformed

Queries == {<<"d">>, <<"T">>, <<"x">>}

----------------------------------------------------------------------------
(* The store as a state machine: one action per call *)

NoCall ==
    [op |-> "none", key |-> <<>>, el |-> NotAnObject, q |-> <<>>, ret |-> "none",
     out |-> <<>>, stats |-> <<>>, evicted |-> <<>>, purged |-> {},
     removed |-> 0, caller |-> <<>>, shares |-> {}]

\* the keys a call dropped because their entries had expired
Purged(els, after) == Keys(els) \ Keys(after)

\* the history of admissions, after a call that leaves the Map els
Surviving(order, els) == SelectSeq(order, LAMBDA k : k \in Keys(els))

----------------------------------------------------------------------------
(* websocket-server.js: ExtensionWebSocketServer *)

\* the sessions that may connect
Sessions == {"s1", "s2", "s3"}

\* an outbound message before it is addressed
Msg(type, data) ==
    [to |-> "none", type |-> type, data |-> data, delivered |-> FALSE]

\* the error texts of the replies
FailedToStore == JStr(<<"Failed to store element">>)
UnknownType(type) == JStr(<<"Unknown message type: ", type>>)
SyntaxErrorMessage == JStr(<<"SyntaxError.message">>)
TypeErrorMessage == JStr(<<"TypeError.message">>)

\* an inbound frame: what JSON.parse makes of it, and the fields the handler reads
Frame(parse, type, element, id) ==
    [parse |-> parse, type |-> type, element |-> element, id |-> id]

NoFrame == Frame("none", "none", NotAnObject, <<>>)

\* the records the sessions submit: two that are admitted, one that
\* validateCapturedElement refuses, one on which sanitizeElement throws, and a
\* message with no element field
WsElements ==
    { ElemA, ElemD,
      [ElemA EXCEPT !.selector = JStr(<<>>)],
      [ElemA EXCEPT !.html = JNum(123)],
      NotAnObject }

\* the frames the sessions send
Frames ==
    { Frame("object", "ELEMENT_CAPTURED", el, <<>>) : el \in WsElements }
    \cup { Frame("object", type, NotAnObject, <<>>) :
              type \in {"PING", "GET_STATS", "GET_ELEMENTS", "CLEAR_ALL",
                        "HELLO", "undefined"} }
    \cup { Frame("object", "REMOVE_ELEMENT", NotAnObject, KeyA) }
    \cup { Frame(parse, "none", NotAnObject, <<>>) :
              parse \in {"syntaxError", "null", "primitive"} }

\* ws.send(data) on an open socket: the frame is written; it reaches the peer
\* unless the transport has failed, which send reports only through a later
\* 'error' event
send(bk, ws, message) ==
    [message EXCEPT !.to = ws, !.delivered = ws \notin bk]

\* sendMessage that writes the frame a second time
sendMessageTwice(rs, bk, ws, message) ==
    IF rs[ws] = "OPEN"
    THEN <<send(bk, ws, message), send(bk, ws, message)>> ELSE <<>>

\* sendMessage that does not look at readyState
sendMessageUnguarded(rs, bk, ws, message) == <<send(bk, ws, message)>>

\* sendMessage(ws, message): the messages it hands to ws.send
sendMessage(rs, bk, ws, message) ==
    IF rs[ws] = "OPEN" THEN <<send(bk, ws, message)>> ELSE <<>>

\* broadcast that gives up at the first client whose delivery fails
RECURSIVE broadcastAbortsOnFailure(_, _, _, _, _)
broadcastAbortsOnFailure(cl, rs, bk, message, exclude) ==
    IF cl = <<>> THEN <<>>
    ELSE LET client == Head(cl)
         IN  IF client # exclude /\ rs[client] = "OPEN"
             THEN IF client \in bk
                  THEN <<send(bk, client, message)>>
                  ELSE <<send(bk, client, message)>>
                       \o broadcastAbortsOnFailure(Tail(cl), rs, bk, message, exclude)
             ELSE broadcastAbortsOnFailure(Tail(cl), rs, bk, message, exclude)

\* broadcast that does not exclude the sender
RECURSIVE broadcastToAll(_, _, _, _, _)
broadcastToAll(cl, rs, bk, message, exclude) ==
    IF cl = <<>> THEN <<>>
    ELSE LET client == Head(cl)
         IN  (IF rs[client] = "OPEN"
              THEN <<send(bk, client, message)>> ELSE <<>>)
             \o broadcastToAll(Tail(cl), rs, bk, message, exclude)

\* broadcast(message, exclude): the clients in the Set's iteration order
RECURSIVE broadcast(_, _, _, _, _)
broadcast(cl, rs, bk, message, exclude) ==
    IF cl = <<>> THEN <<>>
    ELSE LET client == Head(cl)
         IN  (IF client # exclude /\ rs[client] = "OPEN"
              THEN <<send(bk, client, message)>> ELSE <<>>)
             \o broadcast(Tail(cl), rs, bk, message, exclude)

\* handleElementCaptured that notifies the other sessions before it acknowledges
handleElementCapturedNotifiesFirst(els, cl, rs, bk, ws, element, t) ==
    LET r == add(els, element, t)
    IN  IF r.ret = "throw"
        THEN [threw |-> TRUE, elements |-> els, sends |-> <<>>]
        ELSE IF r.ret = "true"
        THEN [threw |-> FALSE, elements |-> r.elements,
              sends |-> broadcast(cl, rs, bk,
                            Msg("ELEMENT_ADDED",
                                <<element.id, element.selector, element.url>>),
                            ws)
                        \o sendMessage(rs, bk, ws,
                               Msg("ELEMENT_STORED",
                                   <<element.id, element.selector, element.timestamp>>))]
        ELSE [threw |-> FALSE, elements |-> r.elements,
              sends |-> sendMessage(rs, bk, ws, Msg("ERROR", <<FailedToStore>>))]

\* handleElementCaptured that notifies the other sessions of a refused record too
handleElementCapturedAlwaysBroadcasts(els, cl, rs, bk, ws, element, t) ==
    LET r == add(els, element, t)
        added == Msg("ELEMENT_ADDED", <<element.id, element.selector, element.url>>)
    IN  IF r.ret = "throw"
        THEN [threw |-> TRUE, elements |-> els, sends |-> <<>>]
        ELSE IF r.ret = "true"
        THEN [threw |-> FALSE, elements |-> r.elements,
              sends |-> sendMessage(rs, bk, ws,
                            Msg("ELEMENT_STORED",
                                <<element.id, element.selector, element.timestamp>>))
                        \o broadcast(cl, rs, bk, added, ws)]
        ELSE [threw |-> FALSE, elements |-> r.elements,
              sends |-> sendMessage(rs, bk, ws, Msg("ERROR", <<FailedToStore>>))
                        \o broadcast(cl, rs, bk, added, ws)]

\* handleElementCaptured(ws, element); threw when storage.add raised
handleElementCaptured(els, cl, rs, bk, ws, element, t) ==
    LET r == add(els, element, t)
    IN  IF r.ret = "throw"
        THEN [threw |-> TRUE, elements |-> els, sends |-> <<>>]
        ELSE IF r.ret = "true"
        THEN [threw |-> FALSE, elements |-> r.elements,
              sends |-> sendMessage(rs, bk, ws,
                            Msg("ELEMENT_STORED",
                                <<element.id, element.selector, element.timestamp>>))
                        \o broadcast(cl, rs, bk,
                               Msg("ELEMENT_ADDED",
                                   <<element.id, element.selector, element.url>>),
                               ws)]
        ELSE [threw |-> FALSE, elements |-> r.elements,
              sends |-> sendMessage(rs, bk, ws, Msg("ERROR", <<FailedToStore>>))]

\* handleMessage whose catch block and default case only log
handleMessageSilentOnError(els, cl, rs, bk, ws, m, t) ==
    IF m.parse \in {"syntaxError", "null"}
    THEN [elements |-> els, sends |-> <<>>]
    ELSE IF m.parse = "primitive"
    THEN [elements |-> els, sends |-> <<>>]
    ELSE CASE m.type = "ELEMENT_CAPTURED" ->
                LET r == handleElementCaptured(els, cl, rs, bk, ws, m.element, t)
                IN  IF r.threw
                    THEN [elements |-> r.elements, sends |-> r.sends]
                    ELSE [elements |-> r.elements, sends |-> r.sends]
           [] m.type = "PING" ->
                [elements |-> els,
                 sends |-> sendMessage(rs, bk, ws, Msg("PONG", <<JNum(t)>>))]
           [] m.type = "GET_STATS" ->
                LET r == getStats(els, t)
                IN  [elements |-> r.elements,
                     sends |-> sendMessage(rs, bk, ws, Msg("STATS", <<r.stats>>))]
           [] m.type = "GET_ELEMENTS" ->
                LET r == getAll(els, t)
                IN  [elements |-> r.elements,
                     sends |-> sendMessage(rs, bk, ws, Msg("ELEMENTS_LIST", r.out))]
           [] m.type = "REMOVE_ELEMENT" ->
                [elements |-> remove(els, m.id).elements,
                 sends |-> sendMessage(rs, bk, ws,
                                       Msg("ELEMENT_REMOVED", <<JStr(m.id)>>))]
           [] m.type = "CLEAR_ALL" ->
                [elements |-> clear(els).elements,
                 sends |-> sendMessage(rs, bk, ws, Msg("ALL_CLEARED", <<>>))]
           [] OTHER ->
                [elements |-> els, sends |-> <<>>]

\* handleMessage(ws, data): JSON.parse, the switch on message.type, and the
\* catch block that answers whatever was thrown
handleMessage(els, cl, rs, bk, ws, m, t) ==
    IF m.parse = "syntaxError"
    THEN [elements |-> els,
          sends |-> sendMessage(rs, bk, ws, Msg("ERROR", <<SyntaxErrorMessage>>))]
    ELSE IF m.parse = "null"
    THEN [elements |-> els,
          sends |-> sendMessage(rs, bk, ws, Msg("ERROR", <<TypeErrorMessage>>))]
    ELSE IF m.parse = "primitive"
    THEN [elements |-> els,
          sends |-> sendMessage(rs, bk, ws,
                                Msg("ERROR", <<UnknownType("undefined")>>))]
    ELSE CASE m.type = "ELEMENT_CAPTURED" ->
                LET r == handleElementCaptured(els, cl, rs, bk, ws, m.element, t)
                IN  IF r.threw
                    THEN [elements |-> r.elements,
                          sends |-> r.sends
                                    \o sendMessage(rs, bk, ws,
                                           Msg("ERROR", <<TypeErrorMessage>>))]
                    ELSE [elements |-> r.elements, sends |-> r.sends]
           [] m.type = "PING" ->
                [elements |-> els,
                 sends |-> sendMessage(rs, bk, ws, Msg("PONG", <<JNum(t)>>))]
           [] m.type = "GET_STATS" ->
                LET r == getStats(els, t)
                IN  [elements |-> r.elements,
                     sends |-> sendMessage(rs, bk, ws, Msg("STATS", <<r.stats>>))]
           [] m.type = "GET_ELEMENTS" ->
                LET r == getAll(els, t)
                IN  [elements |-> r.elements,
                     sends |-> sendMessage(rs, bk, ws, Msg("ELEMENTS_LIST", r.out))]
           [] m.type = "REMOVE_ELEMENT" ->
                [elements |-> remove(els, m.id).elements,
                 sends |-> sendMessage(rs, bk, ws,
                                       Msg("ELEMENT_REMOVED", <<JStr(m.id)>>))]
           [] m.type = "CLEAR_ALL" ->
                [elements |-> clear(els).elements,
                 sends |-> sendMessage(rs, bk, ws, Msg("ALL_CLEARED", <<>>))]
           [] OTHER ->
                [elements |-> els,
                 sends |-> sendMessage(rs, bk, ws,
                                       Msg("ERROR", <<UnknownType(m.type)>>))]

\* this.clients.add(ws) / this.clients.delete(ws)
SetAdd(cl, ws) ==
    IF \E i \in 1..Len(cl) : cl[i] = ws THEN cl ELSE Append(cl, ws)
SetDelete(cl, ws) == SelectSeq(cl, LAMBDA c : c # ws)

Welcome ==
    Msg("WELCOME", <<JStr(<<"1.0.0">>), JNum(maxElements), JNum(ttl)>>)

\* a 'connection' handler that announces the limits to every client
onConnectionWelcomesAll(cl, rs, bk, ws) ==
    [clients |-> SetAdd(cl, ws),
     sends |-> broadcastToAll(SetAdd(cl, ws), rs, bk, Welcome, ws)]

\* the 'connection' handler: register the socket, send WELCOME
onConnection(cl, rs, bk, ws) ==
    [clients |-> SetAdd(cl, ws),
     sends |-> sendMessage(rs, bk, ws, Welcome)]

\* the 'close' handler
onClose(cl, ws) == [clients |-> SetDelete(cl, ws)]

\* stop(): close every client, forget them, close the listener
stop(w, cl, rs) ==
    IF w
    THEN [wss |-> FALSE, clients |-> <<>>,
          readyState |-> [s \in Sessions |->
                            IF (\E i \in 1..Len(cl) : cl[i] = s) /\ rs[s] = "OPEN"
                            THEN "CLOSING" ELSE rs[s]]]
    ELSE [wss |-> w, clients |-> cl, readyState |-> rs]

NoEvent ==
    [event |-> "none", session |-> "none", msg |-> NoFrame, sends |-> <<>>]

----------------------------------------------------------------------------
(* service-worker.js: the background worker of the extension.  Its functions
   are operators on x = [w, b]: w the worker's globals (ws is the index of the
   socket it refers to, 0 for null; reconnectTimer the id of the timer it
   holds, 0 for null), b its environment: the readyState of every socket the
   worker has created, the timers set and not yet fired or cleared, the
   GET_ELEMENTS requests on the wire (the socket each went out on), and the
   answers each requestElements callback has been given. *)

RECONNECT_DELAY == 3000
MAX_RECONNECT_ATTEMPTS == 5

\* the sockets the worker may create, and the requestElements calls made
MaxSockets == 7
MaxRequests == 2

\* the state after init(): connectToServer has created the first socket
WorkerStarted ==
    [ws |-> 1, reconnectAttempts |-> 0, reconnectTimer |-> 0,
     connectionStatus |-> "connecting", pendingElementRequests |-> <<>>]

BrowserStarted ==
    [sockets |-> <<"CONNECTING">>, timers |-> {}, timerIds |-> 0,
     wire |-> <<>>, answers |-> <<>>]

\* ws && ws.readyState === WebSocket.OPEN
WsIsOpen(x) == x.w.ws # 0 /\ x.b.sockets[x.w.ws] = "OPEN"

\* connectToServer that opens a socket whatever connectionStatus says
connectToServerUnguarded(x) ==
    [w |-> [x.w EXCEPT !.connectionStatus = "connecting",
                       !.ws = Len(x.b.sockets) + 1],
     b |-> [x.b EXCEPT !.sockets = Append(@, "CONNECTING")]]

\* connectToServer().  new WebSocket(WS_SERVER_URL) throws only for a URL
\* that does not parse, and WS_SERVER_URL is a constant that does.
connectToServer(x) ==
    IF x.w.connectionStatus \in {"connecting", "connected"}
    THEN x
    ELSE [w |-> [x.w EXCEPT !.connectionStatus = "connecting",
                            !.ws = Len(x.b.sockets) + 1],
          b |-> [x.b EXCEPT !.sockets = Append(@, "CONNECTING")]]

\* handleWebSocketOpen()
handleWebSocketOpen(x) ==
    [x EXCEPT !.w.connectionStatus = "connected", !.w.reconnectAttempts = 0]

\* scheduleReconnect that goes on scheduling after MAX_RECONNECT_ATTEMPTS
scheduleReconnectUnbounded(x) ==
    LET n == x.w.reconnectAttempts + 1
        id == x.b.timerIds + 1
    IN  [w |-> [x.w EXCEPT !.reconnectAttempts = n, !.reconnectTimer = id],
         b |-> [x.b EXCEPT
                  !.timers = {t \in @ : t.id # x.w.reconnectTimer}
                             \cup {[id |-> id, delay |-> RECONNECT_DELAY * n]},
                  !.timerIds = id]]

\* scheduleReconnect(): clearTimeout of the timer held (a no-op when it has
\* fired), then setTimeout(connectToServer, RECONNECT_DELAY * reconnectAttempts)
scheduleReconnect(x) ==
    IF x.w.reconnectAttempts >= MAX_RECONNECT_ATTEMPTS
    THEN x
    ELSE LET n == x.w.reconnectAttempts + 1
             id == x.b.timerIds + 1
         IN  [w |-> [x.w EXCEPT !.reconnectAttempts = n, !.reconnectTimer = id],
              b |-> [x.b EXCEPT
                       !.timers = {t \in @ : t.id # x.w.reconnectTimer}
                                  \cup {[id |-> id, delay |-> RECONNECT_DELAY * n]},
                       !.timerIds = id]]

\* handleWebSocketClose(event)
handleWebSocketClose(x, wasClean) ==
    LET y == [x EXCEPT !.w.connectionStatus = "disconnected", !.w.ws = 0]
    IN  IF ~wasClean THEN scheduleReconnect(y) ELSE y

\* handleWebSocketError(error)
handleWebSocketError(x) == [x EXCEPT !.w.connectionStatus = "disconnected"]

\* sendToServer(message); awaited when the message is GET_ELEMENTS, the one
\* message whose reply the worker waits for
sendToServer(x, awaited) ==
    IF WsIsOpen(x)
    THEN IF awaited THEN [x EXCEPT !.b.wire = Append(@, x.w.ws)] ELSE x
    ELSE IF x.w.connectionStatus = "disconnected"
    THEN connectToServer(x)
    ELSE x

\* requestElements(sendResponse): the callback is the next index of answers
requestElements(x) ==
    LET r == Len(x.b.answers) + 1
        y == [x EXCEPT !.b.answers = Append(@, <<>>)]
    IN  IF WsIsOpen(x)
        THEN sendToServer([y EXCEPT !.w.pendingElementRequests = Append(@, r)],
                          TRUE)
        ELSE [y EXCEPT !.b.answers[r] = <<"empty">>]

\* handleWebSocketMessage(event) for a message of the given type: only
\* ELEMENTS_LIST changes the worker's state
handleWebSocketMessage(x, type) ==
    IF type = "ELEMENTS_LIST"
    THEN LET pending == {x.w.pendingElementRequests[i] :
                            i \in 1..Len(x.w.pendingElementRequests)}
         IN  [x EXCEPT !.w.pendingElementRequests = <<>>,
                       !.b.answers = [r \in 1..Len(@) |->
                                        IF r \in pending
                                        THEN Append(@[r], "list") ELSE @[r]]]
    ELSE x


\* the processes that may be launched, and a process before it is
Procs == {"p1", "p2"}

NotStarted ==
    [mode |-> "none", pc |-> "off", handlers |-> <<>>, timer |-> FALSE,
     nclients |-> 0, port |-> 0, tryIdx |-> 0, exit |-> "none"]

NoRequest ==
    [surface |-> "none", name |-> "none", arg |-> <<>>, status |-> "none",
     kind |-> "none", body |-> <<>>]

\* main(): the storage is constructed, the WebSocket server is listening, no
\* session has connected
Init ==
    /\ elements = <<>>
    /\ cleanupTimer = TRUE
    /\ now = 0
    /\ admitOrder = <<>>
    /\ last = NoCall
    /\ wss = TRUE
    /\ clients = <<>>
    /\ readyState = [s \in Sessions |-> "CLOSED"]
    /\ receiving = {}
    /\ broken = {}
    /\ welcomeCount = [s \in Sessions |-> 0]
    /\ wsLast = NoEvent
    /\ mcpLast = NoRequest
    /\ proc = [p \in Procs |-> NotStarted]
    /\ lockfile = "none"
    /\ foreign = {}
    /\ worker = WorkerStarted
    /\ browser = BrowserStarted

\* The process serves calls until its shutdown handler has run: that handler calls
\* destroy() and then process.exit(0), and destroy() is what clears cleanupTimer.
Running == cleanupTimer

Add(el) ==
    LET r == add(elements, el, now)
    IN  /\ Running
        /\ elements' = r.elements
        /\ admitOrder' =
             IF r.ret = "true"
             THEN Append(SelectSeq(Surviving(admitOrder, r.elements),
                                   LAMBDA k : k # el.id.s), el.id.s)
             ELSE admitOrder
        /\ last' = [NoCall EXCEPT !.op = "add", !.el = el, !.ret = r.ret,
                                  !.evicted = r.evicted]
        /\ UNCHANGED <<cleanupTimer, now, wsVars, mcpLast, procVars, extVars>>

Get(id) ==
    LET r == get(elements, id, now)
    IN  /\ Running
        /\ elements' = r.elements
        /\ admitOrder' = Surviving(admitOrder, r.elements)
        /\ last' = [NoCall EXCEPT !.op = "get", !.key = id, !.out = r.out,
                                  !.purged = Purged(elements, r.elements),
                                  !.ret = IF r.out = <<>> THEN "null" ELSE "value"]
        /\ UNCHANGED <<cleanupTimer, now, wsVars, mcpLast, procVars, extVars>>

GetAll ==
    LET r == getAll(elements, now)
    IN  /\ Running
        /\ elements' = r.elements
        /\ admitOrder' = Surviving(admitOrder, r.elements)
        /\ last' = [NoCall EXCEPT !.op = "getAll", !.out = r.out, !.ret = "list",
                                  !.purged = Purged(elements, r.elements)]
        /\ UNCHANGED <<cleanupTimer, now, wsVars, mcpLast, procVars, extVars>>

Remove(id) ==
    LET r == remove(elements, id)
    IN  /\ Running
        /\ elements' = r.elements
        /\ admitOrder' = Surviving(admitOrder, r.elements)
        /\ last' = [NoCall EXCEPT !.op = "remove", !.key = id,
                                  !.ret = IF r.ret THEN "true" ELSE "false",
                                  !.removed = Len(elements) - Len(r.elements),
                                  !.purged =
                                      {k \in {id} :
                                          /\ IndexOf(elements, k) # 0
                                          /\ Expired(elements[IndexOf(elements, k)], now)}]
        /\ UNCHANGED <<cleanupTimer, now, wsVars, mcpLast, procVars, extVars>>

Clear ==
    /\ Running
    /\ elements' = clear(elements).elements
    /\ admitOrder' = <<>>
    /\ last' = [NoCall EXCEPT !.op = "clear", !.ret = "undefined",
                              !.removed = clear(elements).count]
    /\ UNCHANGED <<cleanupTimer, now, wsVars, mcpLast, procVars, extVars>>

Search(q) ==
    LET r == search(elements, q, now)
    IN  /\ Running
        /\ elements' = r.elements
        /\ admitOrder' = Surviving(admitOrder, r.elements)
        /\ last' = [NoCall EXCEPT !.op = "search", !.q = q, !.out = r.out,
                                  !.purged = Purged(elements, r.elements),
                                  !.ret = IF r.threw THEN "throw" ELSE "list"]
        /\ UNCHANGED <<cleanupTimer, now, wsVars, mcpLast, procVars, extVars>>

GetStats ==
    LET r == getStats(elements, now)
    IN  /\ Running
        /\ elements' = r.elements
        /\ admitOrder' = Surviving(admitOrder, r.elements)
        /\ last' = [NoCall EXCEPT !.op = "getStats", !.stats = <<r.stats>>,
                                  !.purged = Purged(elements, r.elements),
                                  !.ret = "stats"]
        /\ UNCHANGED <<cleanupTimer, now, wsVars, mcpLast, procVars, extVars>>

\* the interval timer fires
Cleanup ==
    /\ cleanupTimer
    /\ elements' = cleanup(elements, now).elements
    /\ admitOrder' = Surviving(admitOrder, elements')
    /\ last' = [NoCall EXCEPT !.op = "cleanup", !.ret = "undefined",
                              !.purged = Purged(elements, elements')]
    /\ UNCHANGED <<cleanupTimer, now, wsVars, mcpLast, procVars, extVars>>

Destroy ==
    LET r == destroy(elements, cleanupTimer)
    IN  /\ cleanupTimer' = r.cleanupTimer
        /\ elements' = r.elements
        /\ admitOrder' = <<>>
        /\ last' = [NoCall EXCEPT !.op = "destroy", !.ret = "undefined",
                                  !.removed = Len(elements) - Len(r.elements)]
        /\ UNCHANGED <<now, wsVars, mcpLast, procVars, extVars>>

\* time passes
Tick ==
    /\ now < MaxTime
    /\ now' = now + 1
    /\ last' = NoCall
    /\ UNCHANGED <<elements, cleanupTimer, admitOrder, wsVars, mcpLast, procVars, extVars>>

Next ==
    \/ \E el \in Inputs : Add(el)
    \/ \E id \in IdKeys : Get(id)
    \/ GetAll
    \/ \E id \in IdKeys : Remove(id)
    \/ Clear
    \/ \E q \in Queries : Search(q)
    \/ GetStats
    \/ Cleanup
    \/ Destroy
    \/ Tick

Spec == Init /\ [][Next]_vars

----------------------------------------------------------------------------
(* The WebSocket server as a state machine: one action per event *)

\* the WELCOME messages each session's socket has been sent, after sends
Welcomed(count, sends) ==
    [s \in Sessions |->
        count[s] + Len(SelectSeq(sends, LAMBDA x : x.to = s /\ x.type = "WELCOME"))]

\* a producer connects
Connect(s) ==
    LET rs == [readyState EXCEPT ![s] = "OPEN"]
        r == onConnection(clients, rs, broken, s)
    IN  /\ wss
        /\ readyState[s] = "CLOSED"
        /\ readyState' = rs
        /\ clients' = r.clients
        /\ receiving' = receiving \cup {s}
        /\ welcomeCount' = Welcomed(welcomeCount, r.sends)
        /\ wsLast' = [event |-> "connection", session |-> s, msg |-> NoFrame,
                      sends |-> r.sends]
        /\ last' = NoCall
        /\ UNCHANGED <<elements, cleanupTimer, now, admitOrder, wss, broken, mcpLast, procVars, extVars>>

\* a frame from session s is handled
Message(s, m) ==
    LET r == handleMessage(elements, clients, readyState, broken, s, m, now)
        admitted == /\ m.parse = "object"
                    /\ m.type = "ELEMENT_CAPTURED"
                    /\ add(elements, m.element, now).ret = "true"
    IN  /\ s \in receiving
        /\ elements' = r.elements
        /\ admitOrder' =
             IF admitted
             THEN Append(SelectSeq(Surviving(admitOrder, r.elements),
                                   LAMBDA k : k # m.element.id.s), m.element.id.s)
             ELSE Surviving(admitOrder, r.elements)
        /\ welcomeCount' = Welcomed(welcomeCount, r.sends)
        /\ wsLast' = [event |-> "message", session |-> s, msg |-> m,
                      sends |-> r.sends]
        /\ last' = NoCall
        /\ UNCHANGED <<cleanupTimer, now, wss, clients, readyState, receiving,
                       broken, mcpLast, procVars, extVars>>

\* the peer's close frame arrives: the socket is CLOSING and delivers no more
\* messages; no handler of the server runs
PeerClose(s) ==
    /\ s \in receiving
    /\ readyState' = [readyState EXCEPT ![s] = "CLOSING"]
    /\ receiving' = receiving \ {s}
    /\ wsLast' = NoEvent
    /\ last' = NoCall
    /\ UNCHANGED <<elements, cleanupTimer, now, admitOrder, wss, clients, broken,
                   welcomeCount, mcpLast, procVars, extVars>>

\* the transport of an open socket fails; the server has not been told yet
TransportFail(s) ==
    /\ readyState[s] = "OPEN"
    /\ s \notin broken
    /\ broken' = broken \cup {s}
    /\ receiving' = receiving \ {s}
    /\ wsLast' = NoEvent
    /\ last' = NoCall
    /\ UNCHANGED <<elements, cleanupTimer, now, admitOrder, wss, clients,
                   readyState, welcomeCount, mcpLast, procVars, extVars>>

\* the socket's 'close' event
CloseEvent(s) ==
    /\ readyState[s] = "CLOSING" \/ s \in broken
    /\ clients' = onClose(clients, s).clients
    /\ readyState' = [readyState EXCEPT ![s] = "CLOSED"]
    /\ receiving' = receiving \ {s}
    /\ broken' = broken \ {s}
    /\ welcomeCount' = [welcomeCount EXCEPT ![s] = 0]
    /\ wsLast' = [event |-> "close", session |-> s, msg |-> NoFrame,
                  sends |-> <<>>]
    /\ last' = NoCall
    /\ UNCHANGED <<elements, cleanupTimer, now, admitOrder, wss, mcpLast, procVars, extVars>>

\* SIGINT or SIGTERM: wsServer.stop(), then storage.destroy()
Shutdown ==
    LET r == stop(wss, clients, readyState)
        d == destroy(elements, cleanupTimer)
    IN  /\ wss' = r.wss
        /\ clients' = r.clients
        /\ readyState' = r.readyState
        /\ elements' = d.elements
        /\ cleanupTimer' = d.cleanupTimer
        /\ admitOrder' = <<>>
        /\ wsLast' = [event |-> "shutdown", session |-> "none", msg |-> NoFrame,
                      sends |-> <<>>]
        /\ last' = NoCall
        /\ UNCHANGED <<now, receiving, broken, welcomeCount, mcpLast, procVars, extVars>>

WsNext ==
    \/ \E s \in Sessions : Connect(s)
    \/ \E s \in Sessions, m \in Frames : Message(s, m)
    \/ \E s \in Sessions : PeerClose(s)
    \/ \E s \in Sessions : TransportFail(s)
    \/ \E s \in Sessions : CloseEvent(s)
    \/ Shutdown

WsSpec == Init /\ [][WsNext]_vars

----------------------------------------------------------------------------
(* The claims about the store.  In an action formula the unprimed variables are
   the store a call found and last' describes that call. *)

\* the entries of els that a read at time t may return, as the code decides it
Live(els, t) == SelectSeq(els, LAMBDA e : ~Expired(e, t))

\* the data of the entries of els, as a set
DataOf(els) == {els[i].data : i \in 1..Len(els)}

\* the records of a returned array, as a set
Returned(out) == {out[i] : i \in 1..Len(out)}

(* C1: whatever calls are made, the store never holds more than maxElements
   entries. *)
C1_CapacityInvariant == Len(elements) <= maxElements

\* an admit found the store full, evicted, and left it full
C1_Witness ==
    /\ last.op = "add" /\ last.ret = "true"
    /\ last.evicted # <<>>
    /\ Len(elements) = maxElements

(* C2: every successful admit of a new id that finds the store at capacity evicts
   exactly one entry, the one whose admission is the oldest among the stored
   entries (whatever the timestamps), and removes nothing else. *)
C2_FifoEviction ==
    [][(/\ last'.op = "add" /\ last'.ret = "true"
        /\ last'.el.id.s \notin Keys(elements)
        /\ Len(elements) >= maxElements)
        => /\ last'.evicted = <<admitOrder[1]>>
           /\ Keys(elements') =
                (Keys(elements) \ {admitOrder[1]}) \cup {last'.el.id.s}]_vars

(* C3 as stated: a read returns an entry iff now < expiresAt; get, getAll and
   search never return an entry whose expiresAt <= now. *)
C3_VisibleIffBeforeExpiry ==
    [][/\ last'.op = "get" =>
            LET i == IndexOf(elements, last'.key)
            IN  last'.out = IF i # 0 /\ now < elements[i].expiresAt
                            THEN <<elements[i].data>> ELSE <<>>
       /\ last'.op = "getAll" =>
            Returned(last'.out) =
                {elements[i].data : i \in {j \in 1..Len(elements) :
                                              now < elements[j].expiresAt}}
       /\ last'.op = "search" =>
            Returned(last'.out) \subseteq
                {elements[i].data : i \in {j \in 1..Len(elements) :
                                              now < elements[j].expiresAt}}]_vars

(* C3 as amended: a read returns an entry iff now <= expiresAt; get, getAll and
   search never return an entry whose expiresAt < now, whether or not the sweep
   has run. *)
C3_VisibleIffNotPastExpiry ==
    [][/\ last'.op = "get" =>
            LET i == IndexOf(elements, last'.key)
            IN  last'.out = IF i # 0 /\ now <= elements[i].expiresAt
                            THEN <<elements[i].data>> ELSE <<>>
       /\ last'.op = "getAll" =>
            Returned(last'.out) =
                {elements[i].data : i \in {j \in 1..Len(elements) :
                                              now <= elements[j].expiresAt}}
       /\ last'.op = "search" =>
            Returned(last'.out) \subseteq
                {elements[i].data : i \in {j \in 1..Len(elements) :
                                              now <= elements[j].expiresAt}}]_vars

\* a getAll, with the sweep yet to run, dropped an entry past its expiry and
\* returned one that expires at this very instant
C3_Witness ==
    /\ last.op = "getAll"
    /\ last.purged # {}
    /\ \E i \in 1..Len(elements) :
         /\ elements[i].expiresAt = now
         /\ elements[i].data \in Returned(last.out)

(* C4: only the unexpired entries count toward the capacity, so a successful
   admit of a new id evicts no unexpired entry while fewer than maxElements unexpired entries
   are stored.  The evicted entry is taken as unexpired only when now < expiresAt,
   and every entry with now <= expiresAt is counted, so that the statement does not
   turn on the instant of expiry itself. *)
C4_NoLiveEvictionBelowCapacity ==
    [][(/\ last'.op = "add" /\ last'.evicted # <<>>
        /\ last'.el.id.s \notin Keys(elements)
        /\ now < elements[1].expiresAt)
        => Cardinality({j \in 1..Len(elements) : now <= elements[j].expiresAt})
              >= maxElements]_vars

(* C5: a get of an entry whose expiry has passed returns null and deletes the
   entry in the same call; getAll and search delete every such entry; and the
   total of a getStats that follows counts none of them. *)
C5_LazyExpiry ==
    [][/\ last'.op = "get" =>
            LET i == IndexOf(elements, last'.key)
            IN  (i # 0 /\ now > elements[i].expiresAt)
                    => /\ last'.out = <<>>
                       /\ last'.key \notin Keys(elements')
       /\ last'.op \in {"getAll", "search", "getStats"} =>
            \A e \in Returned(elements') : now <= e.expiresAt
       /\ last'.op \in {"get", "getAll", "search"} =>
            LET st == getStats(elements', now')
                gone == {elements[i].key : i \in {j \in 1..Len(elements) :
                                                     now > elements[j].expiresAt}}
            IN  /\ st.stats.total =
                     Cardinality({k \in Keys(elements') : k \notin gone})
                /\ (last'.op = "get" /\ last'.key \in gone)
                      => last'.key \notin Keys(st.elements)]_vars

\* a get, with the sweep yet to run, found its entry past its expiry, returned
\* null and deleted it, while another entry stays stored
C5_Witness ==
    /\ last.op = "get" /\ last.ret = "null"
    /\ last.purged = {last.key}
    /\ cleanupTimer
    /\ elements # <<>>

\* the malformed records that validateCapturedElement is written to refuse
Refused ==
    { NotAnObject,
      [ElemA EXCEPT !.text = JAbsent],
      [ElemA EXCEPT !.id = JNum(5)],
      [ElemA EXCEPT !.timestamp = JNum(0)],
      [ElemA EXCEPT !.timestamp = JStr(<<"1">>)],
      [ElemA EXCEPT !.url = JStr(<<"f", "t", "p">>)],
      [ElemA EXCEPT !.selector = JStr(<<>>)] }

(* C6: an admit of a record that fails validation returns false and leaves the
   store as it was: nothing added, replaced, evicted or refreshed. *)
C6_InvalidAdmitChangesNothing ==
    [][(last'.op = "add" /\ last'.el \in Refused)
        => /\ last'.ret = "false"
           /\ last'.evicted = <<>>
           /\ elements' = elements]_vars

\* a refused record carried the id of a stored entry whose expiry an admit at
\* this time would have moved, in a full store
C6_Witness ==
    /\ last.op = "add" /\ last.ret = "false"
    /\ last.el \in Refused /\ last.el.isObject /\ last.el.id = JStr(KeyA)
    /\ Len(elements) = maxElements
    /\ IndexOf(elements, KeyA) # 0
    /\ elements[IndexOf(elements, KeyA)].expiresAt < now + ttl

\* a record with a required field absent, of the wrong type, a timestamp that is
\* not positive, a url without the scheme prefix, or an empty selector
IsMalformed(el) ==
    \/ ~el.isObject
    \/ \E f \in {"id", "timestamp", "url", "selector", "html", "text"} :
           el[f].t = "absent"
    \/ el.id.t # "string"
    \/ el.timestamp.t # "number" \/ el.timestamp.n <= 0
    \/ el.url.t # "string" \/ ~startsWith(el.url.s, HTTP)
    \/ el.selector.t # "string" \/ el.selector.s = <<>>
    \/ el.html.t # "string"
    \/ el.text.t # "string"

(* C7: every malformed record is rejected: the admit returns false, does not
   raise, and stores nothing. *)
C7_MalformedIsRejected ==
    [][(last'.op = "add" /\ IsMalformed(last'.el))
        => /\ last'.ret = "false"
           /\ elements' = elements]_vars

(* C8 as stated: getAll returns exactly the live entries, newest timestamp
   first, and of two entries with the same timestamp the one inserted later comes
   first. *)
C8_ListTiesLatestFirst ==
    [][last'.op = "getAll" =>
        /\ Len(last'.out) = Len(Live(elements, now))
        /\ Returned(last'.out) = DataOf(Live(elements, now))
        /\ \A i, j \in 1..Len(last'.out) : i < j =>
             \/ last'.out[i].timestamp.n > last'.out[j].timestamp.n
             \/ /\ last'.out[i].timestamp.n = last'.out[j].timestamp.n
                /\ IndexOf(elements, last'.out[i].id.s)
                     > IndexOf(elements, last'.out[j].id.s)]_vars

(* C8 as amended: getAll returns exactly the live entries, newest timestamp
   first, and entries with the same timestamp keep the order of the store, the
   one whose key was inserted earlier first. *)
C8_ListTiesEarliestFirst ==
    [][last'.op = "getAll" =>
        /\ Len(last'.out) = Len(Live(elements, now))
        /\ Returned(last'.out) = DataOf(Live(elements, now))
        /\ \A i, j \in 1..Len(last'.out) : i < j =>
             \/ last'.out[i].timestamp.n > last'.out[j].timestamp.n
             \/ /\ last'.out[i].timestamp.n = last'.out[j].timestamp.n
                /\ IndexOf(elements, last'.out[i].id.s)
                     < IndexOf(elements, last'.out[j].id.s)]_vars

\* a list of three entries, the last two with the same timestamp, which is not
\* the order of the store
C8_Witness ==
    /\ last.op = "getAll"
    /\ Len(last.out) = 3
    /\ last.out[1].timestamp.n > last.out[2].timestamp.n
    /\ last.out[2].timestamp.n = last.out[3].timestamp.n
    /\ elements[1].data = last.out[2]

\* query occurs in a field, whatever the case of either
Contains(v, query) ==
    /\ v.t = "string"
    /\ \E i \in 0..(Len(v.s) - Len(query)) :
         \A j \in 1..Len(query) : LowerChar(v.s[i + j]) = LowerChar(query[j])

(* C9: search(query) returns the list of getAll, in its order, cut down to the
   records whose selector, text, html or url contains the query, whatever the
   case. *)
C9_SearchIsFilteredList ==
    [][last'.op = "search" =>
        /\ last'.ret = "list"
        /\ last'.out =
             SelectSeq(getAll(elements, now).out,
                       LAMBDA e : \/ Contains(e.selector, last'.q)
                                  \/ Contains(e.text, last'.q)
                                  \/ Contains(e.html, last'.q)
                                  \/ Contains(e.url, last'.q))]_vars

\* the keys and expiry times of a Map, in its order
Shape(els) == [i \in 1..Len(els) |-> <<els[i].key, els[i].expiresAt>>]

(* C10: an admit of a record whose id is stored leaves the store that remove(id)
   followed by the admit leaves: the same ids, expiry times and order. *)
C10_ReAdmitIsRemoveThenAdmit ==
    [][(/\ last'.op = "add" /\ last'.ret = "true"
        /\ last'.el.id.s \in Keys(elements))
        => Shape(elements') =
             Shape(add(remove(elements, last'.el.id.s).elements,
                       last'.el, now).elements)]_vars


\* C20: teardown is idempotent.  Every destroy() returns without an error and
\* leaves the store empty and the sweep timer cancelled; a destroy() made on a
\* store that is already torn down changes nothing; and once the timer is
\* cancelled it stays cancelled and no sweep runs again.
C20_IdempotentTeardown ==
    [][ /\ last'.op = "destroy" =>
            /\ last'.ret = "undefined"
            /\ elements' = <<>>
            /\ ~cleanupTimer'
            /\ (~cleanupTimer /\ elements = <<>>) =>
                    (elements' = elements /\ cleanupTimer' = cleanupTimer)
        /\ ~cleanupTimer => (~cleanupTimer' /\ last'.op # "cleanup")
      ]_vars

\* a teardown that had entries to remove has run
C20_Witness ==
    /\ last.op = "destroy"
    /\ last.removed > 0
    /\ elements = <<>>
    /\ ~cleanupTimer


----------------------------------------------------------------------------
(* mcp-server.js: ElementContextMCPServer, and summarizeElement of schema.js *)

SUMMARY_TEXT_SIZE == 2

\* summarizeElement(element): [threw, value].  text?.substring is not a function
\* when text is a number.
summarizeElement(element) ==
    IF element.text.t = "number"
    THEN [threw |-> TRUE, value |-> <<>>]
    ELSE [threw |-> FALSE,
          value |-> <<[id |-> element.id,
                       timestamp |-> element.timestamp,
                       url |-> element.url,
                       selector |-> element.selector,
                       text |-> IF element.text.t = "string"
                                THEN substring(element.text.s, SUMMARY_TEXT_SIZE)
                                ELSE <<>>,
                       hasScreenshot |-> Truthy(element.screenshot)]>>]

\* elements.map(summarizeElement)
RECURSIVE Summaries(_)
Summaries(list) ==
    IF list = <<>> THEN [threw |-> FALSE, value |-> <<>>]
    ELSE LET h == summarizeElement(Head(list))
             r == Summaries(Tail(list))
         IN  IF h.threw \/ r.threw
             THEN [threw |-> TRUE, value |-> <<>>]
             ELSE [threw |-> FALSE, value |-> h.value \o r.value]

\* the resource URIs, as sequences of characters in which the scheme prefix,
\* "list" and "screenshot" are single units
SCHEME == "element://"
SLASH == "/"
KeyList == <<"list">>
KeySlash == <<"a", SLASH, "b">>
ListUri == <<SCHEME, "list">>
ElementUri(id) == <<SCHEME>> \o id
ScreenshotUri(id) == <<SCHEME>> \o id \o <<SLASH, "screenshot">>

\* uri.match(/^element:\/\/([^/]+)(?:\/(.+))?$/): elementId is the run of
\* characters up to the first slash, subResource everything after that slash
FirstSlash(seq) ==
    IF \E i \in 1..Len(seq) : seq[i] = SLASH
    THEN CHOOSE i \in 1..Len(seq) :
            seq[i] = SLASH /\ \A j \in 1..(i - 1) : seq[j] # SLASH
    ELSE 0

ParseUri(uri) ==
    IF Len(uri) < 2 \/ uri[1] # SCHEME
    THEN [match |-> FALSE, elementId |-> <<>>, subResource |-> <<>>]
    ELSE LET rest == Tail(uri)
             k == FirstSlash(rest)
         IN  IF k = 0
             THEN [match |-> TRUE, elementId |-> rest, subResource |-> <<>>]
             ELSE IF k = 1 \/ k = Len(rest)
             THEN [match |-> FALSE, elementId |-> <<>>, subResource |-> <<>>]
             ELSE [match |-> TRUE,
                   elementId |-> SubSeq(rest, 1, k - 1),
                   subResource |-> SubSeq(rest, k + 1, Len(rest))]

Answer(els, status, kind, body) ==
    [elements |-> els, status |-> status, kind |-> kind, body |-> body]

\* the ReadResource handler
ReadResource(els, uri, t) ==
    IF uri = ListUri
    THEN LET all == getAll(els, t)
             sums == Summaries(all.out)
         IN  IF sums.threw
             THEN Answer(all.elements, "throw", "none", <<>>)
             ELSE Answer(all.elements, "ok", "list", sums.value)
    ELSE LET match == ParseUri(uri)
         IN  IF ~match.match
             THEN Answer(els, "invalid", "none", <<>>)
             ELSE LET r == get(els, match.elementId, t)
                  IN  IF r.out = <<>>
                      THEN Answer(r.elements, "notFound", "none", <<>>)
                      ELSE IF match.subResource = <<"screenshot">>
                      THEN IF ~Truthy(r.out[1].screenshot)
                           THEN Answer(r.elements, "noScreenshot", "none", <<>>)
                           ELSE Answer(r.elements, "ok", "blob",
                                       <<r.out[1].screenshot>>)
                      ELSE Answer(r.elements, "ok", "details", r.out)

\* the tool list_captured_elements
list_captured_elements(els, t) ==
    LET all == getAll(els, t)
        sums == Summaries(all.out)
    IN  IF sums.threw
        THEN Answer(all.elements, "throw", "none", <<>>)
        ELSE Answer(all.elements, "ok", "list", sums.value)

\* the tool get_element_details: the element without its screenshot, with
\* _hasScreenshot and _screenshotAvailable (<<>> for null)
get_element_details(els, id, t) ==
    LET r == get(els, id, t)
    IN  IF r.out = <<>>
        THEN Answer(r.elements, "notFound", "none", <<>>)
        ELSE LET screenshot == r.out[1].screenshot
             IN  Answer(r.elements, "ok", "details",
                        <<[element |-> [r.out[1] EXCEPT !.screenshot = JAbsent],
                           hasScreenshot |-> Truthy(screenshot),
                           screenshotAvailable |->
                               IF Truthy(screenshot)
                               THEN <<ScreenshotUri(id)>> ELSE <<>>]>>)

\* the records the MCP surfaces are asked about: one whose screenshot is
\* dropped for its size, one whose screenshot is kept, one with a slash in
\* its id and one whose id is "list"
ElemSlash == [ElemB EXCEPT !.id = JStr(KeySlash)]
ElemList == [ElemC EXCEPT !.id = JStr(KeyList)]
McpElements == {ElemA, ElemB, ElemSlash, ElemList}
McpIds == {KeyA, KeyB, KeySlash, KeyList}
Uris ==
    {ElementUri(id) : id \in McpIds \cup {<<>>}}
    \cup {ScreenshotUri(id) : id \in McpIds}

----------------------------------------------------------------------------
(* The MCP server as a state machine: one action per request *)

\* a producer's record is admitted
McpAdd(el) ==
    LET r == add(elements, el, now)
    IN  /\ Running
        /\ elements' = r.elements
        /\ admitOrder' =
             IF r.ret = "true"
             THEN Append(SelectSeq(Surviving(admitOrder, r.elements),
                                   LAMBDA k : k # el.id.s), el.id.s)
             ELSE admitOrder
        /\ last' = [NoCall EXCEPT !.op = "add", !.el = el, !.ret = r.ret,
                                  !.evicted = r.evicted]
        /\ mcpLast' = NoRequest
        /\ UNCHANGED <<cleanupTimer, now, wsVars, procVars, extVars>>

ReadResourceRequest(uri) ==
    LET r == ReadResource(elements, uri, now)
    IN  /\ Running
        /\ elements' = r.elements
        /\ admitOrder' = Surviving(admitOrder, r.elements)
        /\ last' = NoCall
        /\ mcpLast' = [surface |-> "resource", name |-> "read", arg |-> uri,
                       status |-> r.status, kind |-> r.kind, body |-> r.body]
        /\ UNCHANGED <<cleanupTimer, now, wsVars, procVars, extVars>>

CallList ==
    LET r == list_captured_elements(elements, now)
    IN  /\ Running
        /\ elements' = r.elements
        /\ admitOrder' = Surviving(admitOrder, r.elements)
        /\ last' = NoCall
        /\ mcpLast' = [surface |-> "tool", name |-> "list_captured_elements",
                       arg |-> <<>>, status |-> r.status, kind |-> r.kind,
                       body |-> r.body]
        /\ UNCHANGED <<cleanupTimer, now, wsVars, procVars, extVars>>

CallDetails(id) ==
    LET r == get_element_details(elements, id, now)
    IN  /\ Running
        /\ elements' = r.elements
        /\ admitOrder' = Surviving(admitOrder, r.elements)
        /\ last' = NoCall
        /\ mcpLast' = [surface |-> "tool", name |-> "get_element_details",
                       arg |-> id, status |-> r.status, kind |-> r.kind,
                       body |-> r.body]
        /\ UNCHANGED <<cleanupTimer, now, wsVars, procVars, extVars>>

McpTick ==
    /\ now < MaxTime
    /\ now' = now + 1
    /\ last' = NoCall
    /\ mcpLast' = NoRequest
    /\ UNCHANGED <<elements, cleanupTimer, admitOrder, wsVars, procVars, extVars>>

McpNext ==
    \/ \E el \in McpElements : McpAdd(el)
    \/ \E uri \in Uris : ReadResourceRequest(uri)
    \/ CallList
    \/ \E id \in McpIds : CallDetails(id)
    \/ McpTick

McpSpec == Init /\ [][McpNext]_vars

----------------------------------------------------------------------------
(* Claims about the WebSocket server *)

\* the messages of sends addressed to session s
SentTo(sends, s) == SelectSeq(sends, LAMBDA x : x.to = s)

\* the frame handled in this step was a submit, and what storage.add made of it
Submitted(m) == m.parse = "object" /\ m.type = "ELEMENT_CAPTURED"
Admits(els, m, t) == Submitted(m) /\ add(els, m.element, t).ret = "true"

\* the kinds of frame the switch of handleMessage knows
KnownTypes ==
    {"ELEMENT_CAPTURED", "PING", "GET_STATS", "GET_ELEMENTS", "REMOVE_ELEMENT",
     "CLEAR_ALL"}

\* C11: every frame handled on an open session is answered with exactly one
\* message on that session, and whatever else the handler sends goes to other
\* sessions as an ELEMENT_ADDED notification.
C11_ExactlyOneReply ==
    [][ (wsLast'.event = "message" /\ readyState[wsLast'.session] = "OPEN") =>
            /\ Len(SentTo(wsLast'.sends, wsLast'.session)) = 1
            /\ \A i \in 1..Len(wsLast'.sends) :
                  wsLast'.sends[i].to # wsLast'.session =>
                      wsLast'.sends[i].type = "ELEMENT_ADDED"
      ]_vars

\* an admitted submit has been answered once while another session was notified
C11_Witness ==
    /\ wsLast.event = "message"
    /\ Submitted(wsLast.msg)
    /\ readyState[wsLast.session] = "OPEN"
    /\ Len(SentTo(wsLast.sends, wsLast.session)) = 1
    /\ Len(wsLast.sends) >= 2

\* C12: when a submit from session A is admitted, every other open session
\* with a working transport receives exactly one ELEMENT_ADDED carrying the
\* record's id, selector and url, no other session is sent more than one
\* message, and A is sent exactly one message, the ELEMENT_STORED ack.
C12_BroadcastToOthersAckToSender ==
    [][ ( /\ wsLast'.event = "message"
          /\ Admits(elements, wsLast'.msg, now)
          /\ readyState[wsLast'.session] = "OPEN" ) =>
            LET A == wsLast'.session
                el == wsLast'.msg.element
            IN  /\ \A x \in Sessions \ {A} :
                      LET got == SentTo(wsLast'.sends, x)
                      IN  /\ Len(got) <= 1
                          /\ (readyState[x] = "OPEN" /\ x \notin broken) =>
                                /\ Len(got) = 1
                                /\ got[1].type = "ELEMENT_ADDED"
                                /\ got[1].data = <<el.id, el.selector, el.url>>
                                /\ got[1].delivered
                /\ LET own == SentTo(wsLast'.sends, A)
                   IN  /\ Len(own) = 1
                       /\ own[1].type = "ELEMENT_STORED"
                       /\ own[1].data = <<el.id, el.selector, el.timestamp>>
      ]_vars

\* an admitted submit with two other sessions open
C12_Witness ==
    /\ wsLast.event = "message"
    /\ Submitted(wsLast.msg)
    /\ Len(wsLast.sends) = 3
    /\ wsLast.sends[1].type = "ELEMENT_STORED"
    /\ \A i \in 2..3 : wsLast.sends[i].type = "ELEMENT_ADDED"
                       /\ wsLast.sends[i].delivered
                       /\ wsLast.sends[i].to # wsLast.session

\* C13: when the notification of an admitted submit cannot be delivered to a
\* registered session (its transport has failed, or its socket is no longer
\* open), every other open session with a working transport still receives
\* it, and the sender is sent its ELEMENT_STORED ack and nothing else.
C13_BroadcastFailureIsolated ==
    [][ ( /\ wsLast'.event = "message"
          /\ Admits(elements, wsLast'.msg, now)
          /\ readyState[wsLast'.session] = "OPEN"
          /\ \E i \in 1..Len(clients) :
                /\ clients[i] # wsLast'.session
                /\ (clients[i] \in broken \/ readyState[clients[i]] # "OPEN") ) =>
            /\ \A x \in Sessions \ {wsLast'.session} :
                  (readyState[x] = "OPEN" /\ x \notin broken) =>
                      \E i \in 1..Len(wsLast'.sends) :
                          /\ wsLast'.sends[i].to = x
                          /\ wsLast'.sends[i].type = "ELEMENT_ADDED"
                          /\ wsLast'.sends[i].delivered
            /\ \A i \in 1..Len(wsLast'.sends) :
                  wsLast'.sends[i].to = wsLast'.session =>
                      (i = 1 /\ wsLast'.sends[i].type = "ELEMENT_STORED")
            /\ wsLast'.sends # <<>>
            /\ wsLast'.sends[1].to = wsLast'.session
      ]_vars

\* a notification was lost on one session and delivered to one after it
C13_Witness ==
    /\ wsLast.event = "message"
    /\ Submitted(wsLast.msg)
    /\ Len(wsLast.sends) = 3
    /\ wsLast.sends[1].type = "ELEMENT_STORED"
    /\ wsLast.sends[2].type = "ELEMENT_ADDED" /\ ~wsLast.sends[2].delivered
    /\ wsLast.sends[3].type = "ELEMENT_ADDED" /\ wsLast.sends[3].delivered

\* C14: a submit that storage.add does not admit is answered with exactly one
\* message, an ERROR to the sender; no other session is sent anything and the
\* store is left as it was.
C14_RefusedSubmitErrorToSenderOnly ==
    [][ ( /\ wsLast'.event = "message"
          /\ Submitted(wsLast'.msg)
          /\ ~Admits(elements, wsLast'.msg, now)
          /\ readyState[wsLast'.session] = "OPEN" ) =>
            /\ Len(wsLast'.sends) = 1
            /\ wsLast'.sends[1].to = wsLast'.session
            /\ wsLast'.sends[1].type = "ERROR"
            /\ elements' = elements
      ]_vars

\* a record that fails validation was refused while another session was open
\* and the store held an entry
C14_Witness ==
    /\ wsLast.event = "message"
    /\ Submitted(wsLast.msg)
    /\ ~validateCapturedElement(wsLast.msg.element)
    /\ Len(wsLast.sends) = 1
    /\ wsLast.sends[1].type = "ERROR"
    /\ \E x \in Sessions \ {wsLast.session} : readyState[x] = "OPEN"
    /\ elements # <<>>

\* C15: a frame that does not parse, that parses to something other than an
\* object, or whose type is none of the known kinds, handled on an open
\* session, is answered with exactly one ERROR on that session and leaves
\* the store unchanged.
C15_UnknownOrMalformedAnswered ==
    [][ ( /\ wsLast'.event = "message"
          /\ (wsLast'.msg.parse # "object" \/ wsLast'.msg.type \notin KnownTypes)
          /\ readyState[wsLast'.session] = "OPEN" ) =>
            /\ Len(wsLast'.sends) = 1
            /\ wsLast'.sends[1].to = wsLast'.session
            /\ wsLast'.sends[1].type = "ERROR"
            /\ elements' = elements
      ]_vars

\* an unparseable frame was answered while the store held an entry
C15_Witness ==
    /\ wsLast.event = "message"
    /\ wsLast.msg.parse = "syntaxError"
    /\ Len(wsLast.sends) = 1
    /\ wsLast.sends[1].type = "ERROR"
    /\ wsLast.sends[1].to = wsLast.session
    /\ elements # <<>>

\* C16: the 'connection' handler sends exactly one message, a WELCOME with
\* maxElements and ttl, to the session that opened; no socket is ever sent a
\* second WELCOME; and a message of any other type is sent only to a socket
\* that was sent its WELCOME in an earlier step.
C16_OneWelcomeFirst ==
    [][ /\ wsLast'.event = "connection" =>
            /\ Len(wsLast'.sends) = 1
            /\ wsLast'.sends[1].to = wsLast'.session
            /\ wsLast'.sends[1].type = "WELCOME"
            /\ wsLast'.sends[1].data[2] = JNum(maxElements)
            /\ wsLast'.sends[1].data[3] = JNum(ttl)
            /\ welcomeCount[wsLast'.session] = 0
        /\ \A s \in Sessions : welcomeCount'[s] <= 1
        /\ \A i \in 1..Len(wsLast'.sends) :
              IF wsLast'.sends[i].type = "WELCOME"
              THEN wsLast'.event = "connection"
              ELSE welcomeCount[wsLast'.sends[i].to] = 1
      ]_vars

\* a session opened while another was open, and only the new one was welcomed
C16_Witness ==
    /\ wsLast.event = "connection"
    /\ Len(wsLast.sends) = 1
    /\ wsLast.sends[1].type = "WELCOME"
    /\ \E x \in Sessions \ {wsLast.session} :
          readyState[x] = "OPEN" /\ welcomeCount[x] = 1

\* C17: the 'close' handler removes the session from the client set, a
\* session without an open socket is never the target of a message, and a
\* frame handled for a session whose socket is no longer open produces no
\* message for it, then or later.
C17_ClosedSessionGetsNothing ==
    [][ /\ wsLast'.event = "close" =>
            \A i \in 1..Len(clients') : clients'[i] # wsLast'.session
        /\ \A i \in 1..Len(wsLast'.sends) :
              readyState'[wsLast'.sends[i].to] = "OPEN"
        /\ \A s \in Sessions :
              readyState'[s] = "CLOSED" =>
                  \A i \in 1..Len(clients') : clients'[i] # s
        /\ (wsLast'.event = "message" /\ readyState[wsLast'.session] # "OPEN") =>
              SentTo(wsLast'.sends, wsLast'.session) = <<>>
      ]_vars

\* a frame arrived on a socket the server had already closed, and its reply
\* was dropped
C17_Witness ==
    /\ wsLast.event = "message"
    /\ wsLast.msg.type = "PING"
    /\ readyState[wsLast.session] = "CLOSING"
    /\ wsLast.sends = <<>>


----------------------------------------------------------------------------
(* Claims about the MCP surfaces *)

\* C18: the tool surface and the resource surface answer alike from the same
\* store: list_captured_elements returns what reading element://list
\* returns, and get_element_details(id) reports not-found exactly when
\* reading element://<id> reports not-found.
C18_SurfacesAgree ==
    [][ /\ (mcpLast'.surface = "tool" /\ mcpLast'.name = "list_captured_elements") =>
            LET r == ReadResource(elements, ListUri, now)
            IN  r.status = mcpLast'.status /\ r.body = mcpLast'.body
        /\ (mcpLast'.surface = "tool" /\ mcpLast'.name = "get_element_details") =>
            LET r == ReadResource(elements, ElementUri(mcpLast'.arg), now)
            IN  (mcpLast'.status = "notFound") <=> (r.status = "notFound")
      ]_vars

\* C19: get_element_details returns the record without its screenshot, flags
\* a screenshot exactly when the stored one is non-empty, and then carries the
\* handle element://<id>/screenshot whose read returns the stored screenshot;
\* with no screenshot stored the handle is null and reading the screenshot
\* resource is an error.
C19_DetailsHandleYieldsMedia ==
    [][ ( /\ mcpLast'.surface = "tool"
          /\ mcpLast'.name = "get_element_details"
          /\ mcpLast'.status = "ok" ) =>
            LET id == mcpLast'.arg
                stored == get(elements, id, now).out[1]
                details == mcpLast'.body[1]
                media == ReadResource(elements, ScreenshotUri(id), now)
            IN  /\ details.element = [stored EXCEPT !.screenshot = JAbsent]
                /\ details.hasScreenshot <=> Truthy(stored.screenshot)
                /\ IF details.hasScreenshot
                   THEN /\ details.screenshotAvailable = <<ScreenshotUri(id)>>
                        /\ LET handle == ReadResource(elements,
                                                      details.screenshotAvailable[1], now)
                           IN  /\ handle.status = "ok"
                               /\ handle.kind = "blob"
                               /\ handle.body = <<stored.screenshot>>
                   ELSE /\ details.screenshotAvailable = <<>>
                        /\ media.status \notin {"ok"}
      ]_vars


----------------------------------------------------------------------------
(* Claims about the sweep, remove and clear *)

\* the entries of the Map els, as a set
Entries(els) == {els[i] : i \in 1..Len(els)}

\* C21, as stated: a sweep removes every entry with expiresAt <= now and no
\* entry with expiresAt > now.
C21_SweepRemovesAtExpiry ==
    [][ last'.op = "cleanup" =>
            \A e \in Entries(elements) :
                IF e.expiresAt <= now
                THEN e.key \notin Keys(elements')
                ELSE e \in Entries(elements')
      ]_vars

\* C21, amended: a sweep removes every entry with expiresAt < now and leaves
\* every entry with expiresAt >= now as it was and in its place, whatever was
\* read before; a sweep runs only while the one interval timer is set.
C21_SweepRemovesPastExpiry ==
    [][ last'.op = "cleanup" =>
            /\ cleanupTimer
            /\ elements' = SelectSeq(elements, LAMBDA e : e.expiresAt >= now)
            /\ \A e \in Entries(elements) :
                  e.expiresAt < now => e.key \notin Keys(elements')
            /\ last'.purged = {e.key : e \in {x \in Entries(elements) :
                                                  x.expiresAt < now}}
      ]_vars

\* a sweep removed an entry past its expiry and kept one at the instant of
\* its expiry
C21_Witness ==
    /\ last.op = "cleanup"
    /\ last.purged # {}
    /\ \E e \in Entries(elements) : e.expiresAt = now

\* C25: remove(id) deletes the entry whether or not it has expired, returns
\* true exactly when the Map held the id, returns false otherwise, and leaves
\* every other entry as it was and in its place.
C25_RemoveUnconditional ==
    [][ last'.op = "remove" =>
            /\ last'.ret \in {"true", "false"}
            /\ (last'.ret = "true") <=> (last'.key \in Keys(elements))
            /\ last'.key \notin Keys(elements')
            /\ elements' = SelectSeq(elements, LAMBDA e : e.key # last'.key)
      ]_vars

\* an entry past its TTL was removed and another entry stayed
C25_Witness ==
    /\ last.op = "remove"
    /\ last.ret = "true"
    /\ last.purged = {last.key}
    /\ elements # <<>>

\* C26, as stated: clear() removes all entries and returns the number of
\* entries it removed.
C26_ClearReturnsCount ==
    [][ last'.op = "clear" =>
            /\ elements' = <<>>
            /\ clear(elements).ret = JNum(Len(elements))
      ]_vars

\* C26, amended: clear() removes all entries and returns undefined; the
\* number of entries removed is only logged.
C26_ClearReturnsNothing ==
    [][ last'.op = "clear" =>
            /\ elements' = <<>>
            /\ clear(elements).ret = JAbsent
            /\ last'.ret = "undefined"
            /\ last'.removed = Len(elements)
      ]_vars

\* a clear() removed two entries or more
C26_Witness ==
    /\ last.op = "clear"
    /\ last.removed >= 2
    /\ elements = <<>>


----------------------------------------------------------------------------
(* The sanitizer, applied by add to the records a producer submits *)

\* bodies: short, exactly at the ceiling, above it, above it only until the
\* script and the handler are removed, above it after the removal too
SanHtml ==
    { <<"x">>,
      <<"x", "x", "x", "x">>,
      <<"x", "x", "x", "x", "T">>,
      <<SCRIPT_OPEN, "b", SCRIPT_CLOSE, "t", ON_HANDLER>>,
      <<"a", SCRIPT_OPEN, "b", SCRIPT_CLOSE, "b", "d", "k", "t">> }

\* excerpts: empty, short, at the ceiling, above it, null
SanText ==
    { JStr(<<>>), JStr(<<"k">>), JStr(<<"a", "b", "d">>),
      JStr(<<"a", "b", "d", "k">>), JNull }

\* screenshots: none, empty, at the ceiling, above it
SanScreenshot ==
    { JAbsent, JStr(<<>>), JStr(<<"p", "n">>), JStr(<<"p", "n", "g">>) }

\* attribute maps
SanAttributes ==
    { {},
      {[k |-> <<"T", "o", "k", "e", "n">>, v |-> <<"s">>],
       [k |-> <<"i", "d">>, v |-> <<"m">>]},
      {[k |-> <<"a", "p", "i", "K", "e", "y">>, v |-> <<"s">>]},
      {[k |-> <<"A", "u", "t", "h">>, v |-> <<"m">>],
       [k |-> <<"d">>, v |-> <<"s">>]} }

SanInputs ==
    { Element(JStr(KeyA), JNum(1), UrlPlain, JStr(<<"D", "i", "v">>),
              JStr(html), text, attributes, screenshot) :
        html \in SanHtml, text \in SanText, attributes \in SanAttributes,
        screenshot \in SanScreenshot }
    \cup { [ElemA EXCEPT !.html = JNum(123)], [ElemA EXCEPT !.selector = JStr(<<>>)] }

\* a record is submitted to the empty store
Submit(el) ==
    LET r == add(elements, el, now)
        san == sanitizeElement(el)
        called == validateCapturedElement(el)
    IN  /\ Running
        /\ elements = <<>>
        /\ elements' = r.elements
        /\ admitOrder' = IF r.ret = "true" THEN <<el.id.s>> ELSE admitOrder
        /\ last' = [NoCall EXCEPT !.op = "add", !.el = el, !.ret = r.ret,
                                  !.caller = IF called THEN <<san.caller>> ELSE <<el>>,
                                  !.shares = IF called THEN san.shares ELSE {}]
        /\ UNCHANGED <<cleanupTimer, now, wsVars, mcpLast, procVars, extVars>>

SanNext == \E el \in SanInputs : Submit(el)

SanSpec == Init /\ [][SanNext]_vars

----------------------------------------------------------------------------
(* Claims about the sanitizer *)

\* an attribute key the blocklist matches
Sensitive(k) == \E w \in sensitiveAttrs : includes(toLowerCase(k), w)

\* the record the store holds after the admit of this step
Stored == elements[1].data

\* C27: for every admitted record and every attribute whose key, lowercased,
\* contains a blocklist word, the stored attribute value is the redaction
\* token and not the submitted value; every other attribute is stored as
\* submitted.
C27_SensitiveAttributesRedacted ==
    (last.op = "add" /\ last.ret = "true") =>
        /\ Len(elements) = 1
        /\ \A a \in last.el.attributes :
              IF Sensitive(a.k)
              THEN /\ [k |-> a.k, v |-> REDACTED] \in Stored.attributes
                   /\ a \notin Stored.attributes
              ELSE a \in Stored.attributes
        /\ \A b \in Stored.attributes : \E a \in last.el.attributes : a.k = b.k

\* a record with a sensitive key written in mixed case and a harmless key was
\* admitted
C27_Witness ==
    /\ last.op = "add" /\ last.ret = "true"
    /\ \E a \in last.el.attributes : Sensitive(a.k) /\ a.k # toLowerCase(a.k)
    /\ \E a \in last.el.attributes : ~Sensitive(a.k)
    /\ \E b \in Stored.attributes : b.v = REDACTED

\* C28: the sanitizer leaves the caller's record as it was passed and the
\* record it returns has no object in common with it.
C28_SanitizerIsPure ==
    (last.op = "add" /\ last.ret = "true") =>
        /\ last.caller = <<last.el>>
        /\ last.shares = {}

\* C29, as stated: a body longer than the ceiling is stored as its first
\* MAX_HTML_SIZE units followed by the marker, a body at or below the
\* ceiling is stored uncut with no marker; the excerpt likewise with
\* MAX_TEXT_SIZE.
C29_CapsSubmittedBody ==
    (last.op = "add" /\ last.ret = "true") =>
        /\ Stored.html.s =
              IF Len(last.el.html.s) > MAX_HTML_SIZE
              THEN Append(SubSeq(last.el.html.s, 1, MAX_HTML_SIZE), TRUNCATED)
              ELSE last.el.html.s
        /\ last.el.text.t = "string" =>
              Stored.text.s =
                  IF Len(last.el.text.s) > MAX_TEXT_SIZE
                  THEN Append(SubSeq(last.el.text.s, 1, MAX_TEXT_SIZE), TRUNCATED)
                  ELSE last.el.text.s

\* C29, amended: the ceiling of the body applies to what is left of it once
\* scripts and handlers are removed; that remainder is stored as its first
\* MAX_HTML_SIZE units followed by the marker when it is longer than the
\* ceiling and uncut with no marker otherwise; the excerpt, which is not
\* scrubbed, follows the same rule with MAX_TEXT_SIZE.
C29_CapsScrubbedBody ==
    (last.op = "add" /\ last.ret = "true") =>
        LET scrubbed == stripHandlers(stripScripts(last.el.html.s))
        IN  /\ Stored.html.s =
                  IF Len(scrubbed) > MAX_HTML_SIZE
                  THEN Append(SubSeq(scrubbed, 1, MAX_HTML_SIZE), TRUNCATED)
                  ELSE scrubbed
            /\ last.el.text.t = "string" =>
                  Stored.text.s =
                      IF Len(last.el.text.s) > MAX_TEXT_SIZE
                      THEN Append(SubSeq(last.el.text.s, 1, MAX_TEXT_SIZE), TRUNCATED)
                      ELSE last.el.text.s
            /\ last.el.text.t # "string" => Stored.text = last.el.text

\* a body still above the ceiling after its script was removed was cut, next
\* to an excerpt exactly at its ceiling that was not
C29_Witness ==
    /\ last.op = "add" /\ last.ret = "true"
    /\ Len(stripHandlers(stripScripts(last.el.html.s))) > MAX_HTML_SIZE
    /\ Len(stripHandlers(stripScripts(last.el.html.s))) < Len(last.el.html.s)
    /\ Len(Stored.html.s) = MAX_HTML_SIZE + 1
    /\ Stored.html.s[MAX_HTML_SIZE + 1] = TRUNCATED
    /\ Len(last.el.text.s) = MAX_TEXT_SIZE
    /\ Stored.text = last.el.text

\* C30: a screenshot longer than MAX_SCREENSHOT_SIZE is stored as the empty
\* string with _screenshotTruncated set; any other screenshot is stored as
\* submitted with no flag; no proper part of a screenshot is ever stored.
C30_MediaAllOrNothing ==
    (last.op = "add" /\ last.ret = "true") =>
        IF last.el.screenshot.t = "string"
           /\ Len(last.el.screenshot.s) > MAX_SCREENSHOT_SIZE
        THEN Stored.screenshot = JStr(<<>>) /\ Stored.screenshotTruncated
        ELSE Stored.screenshot = last.el.screenshot /\ ~Stored.screenshotTruncated

\* an oversized screenshot was dropped and flagged
C30_Witness ==
    /\ last.op = "add" /\ last.ret = "true"
    /\ Len(last.el.screenshot.s) > MAX_SCREENSHOT_SIZE
    /\ Stored.screenshot = JStr(<<>>)
    /\ Stored.screenshotTruncated


----------------------------------------------------------------------------
(* start-server.js and index.js: the processes of the server.  Each process has
   its own storage and WebSocket server; of these the record keeps the sweep
   timer, the number of registered sessions and the port bound. *)

DEFAULT_PORT == 38100
FALLBACK_PORTS == <<38101, 38102, 38103>>

\* the ports tryPort goes through: this.port, then the fallbacks
PortList == <<DEFAULT_PORT>> \o FALLBACK_PORTS

\* PORT of start-server.js, the port lsof is asked about
PORT == 38100

Alive(r) == r.pc \notin {"off", "exited"}

\* a port some program is listening on
InUse(pr, fr, port) ==
    port \in fr \/ \E q \in Procs : Alive(pr[q]) /\ pr[q].port = port

\* process.exit(code), or the death of the process: what is left of its record
Exited(r, code) == [r EXCEPT !.pc = "exited", !.exit = code, !.port = 0]

\* the 'exit' handler of start-server.js removes the lockfile, whoever wrote it
LockAfterExit(r, lock) ==
    IF \E k \in 1..Len(r.handlers) : r.handlers[k] = "unlinkOnExit"
    THEN "none" ELSE lock

\* tryPort that gives up the listener and lets startup go on
tryPortDegraded(i, outcome) ==
    IF outcome = "listening" THEN [result |-> "resolve", next |-> i]
    ELSE IF outcome = "EADDRINUSE" /\ i < Len(PortList)
    THEN [result |-> "retry", next |-> i + 1]
    ELSE [result |-> "resolve", next |-> i]

\* tryPort(port, fallbackPorts), for the i-th port of PortList and the event
\* the new WebSocketServer emits
tryPort(i, outcome) ==
    IF outcome = "listening" THEN [result |-> "resolve", next |-> i]
    ELSE IF outcome = "EADDRINUSE"
    THEN IF i < Len(PortList)
         THEN [result |-> "retry", next |-> i + 1]
         ELSE [result |-> "reject", next |-> i]
    ELSE [result |-> "reject", next |-> i]

\* the SIGINT / SIGTERM listeners of a process, in the order they were added
SignalHandlers(r) ==
    SelectSeq(r.handlers, LAMBDA h : h \in {"exit0", "cleanup"})

\* a process is launched, through the starter or as node index.js
Launch(p, mode) ==
    /\ proc[p].pc = "off"
    /\ proc' = [proc EXCEPT ![p] =
                  [NotStarted EXCEPT !.mode = mode,
                                     !.pc = IF mode = "starter" THEN "exists"
                                            ELSE "main"]]
    /\ mcpLast' = NoRequest
    /\ UNCHANGED <<storeVars, wsVars, extVars, lockfile, foreign>>

\* checkExistingServer: existsSync(LOCKFILE)
StarterExists(p) ==
    /\ proc[p].pc = "exists"
    /\ proc' = [proc EXCEPT ![p].pc = IF lockfile = "none" THEN "write" ELSE "read"]
    /\ mcpLast' = NoRequest
    /\ UNCHANGED <<storeVars, wsVars, extVars, lockfile, foreign>>

\* checkExistingServer: readFileSync and isProcessRunning(data.pid).  A
\* lockfile that has vanished makes readFileSync throw, and the unlinkSync of
\* the catch block throw again: the process dies of the rejection.
StarterRead(p) ==
    /\ proc[p].pc = "read"
    /\ IF lockfile = "none"
       THEN /\ proc' = [proc EXCEPT ![p] = Exited(proc[p], "1")]
            /\ UNCHANGED lockfile
       ELSE IF Alive(proc[lockfile])
       THEN /\ proc' = [proc EXCEPT ![p].pc = "lsof"]
            /\ UNCHANGED lockfile
       ELSE /\ proc' = [proc EXCEPT ![p].pc = "write"]
            /\ lockfile' = "none"
    /\ mcpLast' = NoRequest
    /\ UNCHANGED <<storeVars, wsVars, extVars, foreign>>

\* checkExistingServer: lsof -ti:PORT.  In use: "Already running", the starter
\* exits with 0.  Not in use: the lockfile is taken for stale and removed.
StarterLsof(p) ==
    /\ proc[p].pc = "lsof"
    /\ IF InUse(proc, foreign, PORT)
       THEN /\ proc' = [proc EXCEPT ![p] = Exited(proc[p], "0")]
            /\ UNCHANGED lockfile
       ELSE IF lockfile = "none"
       THEN /\ proc' = [proc EXCEPT ![p] = Exited(proc[p], "1")]
            /\ UNCHANGED lockfile
       ELSE /\ proc' = [proc EXCEPT ![p].pc = "write"]
            /\ lockfile' = "none"
    /\ mcpLast' = NoRequest
    /\ UNCHANGED <<storeVars, wsVars, extVars, foreign>>

\* startServer: writeFileSync(LOCKFILE), the 'exit', SIGINT and SIGTERM
\* listeners, then main()
StarterWrite(p) ==
    /\ proc[p].pc = "write"
    /\ lockfile' = p
    /\ proc' = [proc EXCEPT ![p].pc = "main",
                            ![p].handlers = <<"unlinkOnExit", "exit0">>]
    /\ mcpLast' = NoRequest
    /\ UNCHANGED <<storeVars, wsVars, extVars, foreign>>

\* main: new ElementStorage (the sweep timer starts), wsServer.start()
MainInit(p) ==
    /\ proc[p].pc = "main"
    /\ proc' = [proc EXCEPT ![p].pc = "bind", ![p].timer = TRUE, ![p].tryIdx = 1]
    /\ mcpLast' = NoRequest
    /\ UNCHANGED <<storeVars, wsVars, extVars, lockfile, foreign>>

\* one tryPort: the port is bound, or in use, or the bind fails otherwise
\* (otherError).  A rejected start() ends main in process.exit(1).
Bind(p, otherError) ==
    LET port == PortList[proc[p].tryIdx]
        outcome == IF otherError THEN "EACCES"
                   ELSE IF InUse(proc, foreign, port) THEN "EADDRINUSE"
                   ELSE "listening"
        r == tryPort(proc[p].tryIdx, outcome)
    IN  /\ proc[p].pc = "bind"
        /\ IF r.result = "resolve"
           THEN /\ proc' = [proc EXCEPT ![p].pc = "listening",
                                        ![p].port = IF outcome = "listening"
                                                    THEN port ELSE 0]
                /\ UNCHANGED lockfile
           ELSE IF r.result = "retry"
           THEN /\ proc' = [proc EXCEPT ![p].tryIdx = r.next]
                /\ UNCHANGED lockfile
           ELSE /\ proc' = [proc EXCEPT ![p] = Exited(proc[p], "1")]
                /\ lockfile' = LockAfterExit(proc[p], lockfile)
        /\ mcpLast' = NoRequest
        /\ UNCHANGED <<storeVars, wsVars, extVars, foreign>>

\* main: mcpServer.start() has resolved; cleanup is added as SIGINT and
\* SIGTERM listener
Ready(p) ==
    /\ proc[p].pc = "listening"
    /\ proc' = [proc EXCEPT ![p].pc = "ready",
                            ![p].handlers = Append(proc[p].handlers, "cleanup")]
    /\ mcpLast' = NoRequest
    /\ UNCHANGED <<storeVars, wsVars, extVars, lockfile, foreign>>

\* a producer connects to the listener of p
ProducerConnects(p) ==
    /\ proc[p].pc \in {"listening", "ready"}
    /\ proc[p].port # 0
    /\ proc[p].nclients = 0
    /\ proc' = [proc EXCEPT ![p].nclients = 1]
    /\ mcpLast' = NoRequest
    /\ UNCHANGED <<storeVars, wsVars, extVars, lockfile, foreign>>

\* SIGINT or SIGTERM reaches p.  Without a listener the process dies of the
\* signal.  Otherwise the listeners run in the order they were added: the
\* starter's listener is process.exit(0), which ends the process before any
\* later listener runs; cleanup calls wsServer.stop() and storage.destroy()
\* and then awaits mcpServer.stop().
Signal(p) ==
    LET hs == SignalHandlers(proc[p])
    IN  /\ Alive(proc[p])
        /\ IF hs = <<>>
           THEN /\ proc' = [proc EXCEPT ![p] = Exited(proc[p], "signal")]
                /\ UNCHANGED lockfile
           ELSE IF Head(hs) = "exit0"
           THEN /\ proc' = [proc EXCEPT ![p] = Exited(proc[p], "0")]
                /\ lockfile' = LockAfterExit(proc[p], lockfile)
           ELSE /\ proc' = [proc EXCEPT ![p].pc = "stopping",
                                        ![p].nclients = 0,
                                        ![p].port = 0,
                                        ![p].timer = FALSE]
                /\ UNCHANGED lockfile
        /\ mcpLast' = NoRequest
        /\ UNCHANGED <<storeVars, wsVars, extVars, foreign>>

\* cleanup: mcpServer.stop() has resolved, process.exit(0)
FinishShutdown(p) ==
    /\ proc[p].pc = "stopping"
    /\ proc' = [proc EXCEPT ![p] = Exited(proc[p], "0")]
    /\ lockfile' = LockAfterExit(proc[p], lockfile)
    /\ mcpLast' = NoRequest
    /\ UNCHANGED <<storeVars, wsVars, extVars, foreign>>

\* another program starts listening on one of the ports
ForeignListen(port) ==
    /\ ~InUse(proc, foreign, port)
    /\ foreign' = foreign \cup {port}
    /\ mcpLast' = NoRequest
    /\ UNCHANGED <<storeVars, wsVars, extVars, proc, lockfile>>

\* getStatus() of the WebSocket server: w is this.wss, port is this.port, n is
\* this.clients.size
getStatus(w, port, n) == [running |-> w, port |-> port, clients |-> n]

\* the tool get_server_status is called on p.  this.wss is set by start() and
\* null again after stop(); this.port is what the constructor was given, the
\* port of CONFIG.websocket.
CallStatus(p) ==
    /\ proc[p].pc \in {"ready", "stopping"}
    /\ mcpLast' = [surface |-> "tool", name |-> "get_server_status",
                   arg |-> <<p>>, status |-> "ok", kind |-> "status",
                   body |-> <<getStatus(proc[p].pc = "ready", DEFAULT_PORT,
                                        proc[p].nclients)>>]
    /\ UNCHANGED <<storeVars, wsVars, procVars, extVars>>

ProcNext ==
    \/ \E p \in Procs, mode \in {"starter", "direct"} : Launch(p, mode)
    \/ \E p \in Procs : StarterExists(p)
    \/ \E p \in Procs : StarterRead(p)
    \/ \E p \in Procs : StarterLsof(p)
    \/ \E p \in Procs : StarterWrite(p)
    \/ \E p \in Procs : MainInit(p)
    \/ \E p \in Procs, otherError \in BOOLEAN : Bind(p, otherError)
    \/ \E p \in Procs : Ready(p)
    \/ \E p \in Procs : ProducerConnects(p)
    \/ \E p \in Procs : Signal(p)
    \/ \E p \in Procs : FinishShutdown(p)
    \/ \E p \in Procs : CallStatus(p)
    \/ \E port \in {PortList[k] : k \in 1..Len(PortList)} : ForeignListen(port)

ProcSpec == Init /\ [][ProcNext]_vars


----------------------------------------------------------------------------
(* Claims about the process lifecycle *)

\* the processes started through the shared starter that have gone on to main()
StartedServers ==
    {p \in Procs : /\ proc[p].mode = "starter"
                   /\ proc[p].pc \in {"main", "bind", "listening", "ready", "stopping"}}

\* the exit of a server that had finished its startup
ShutDown(p) ==
    /\ proc[p].pc = "exited"
    /\ proc[p].exit = "0"
    /\ \E k \in 1..Len(proc[p].handlers) : proc[p].handlers[k] = "cleanup"

\* C22: on every shutdown path (SIGINT or SIGTERM, server started directly or
\* through the shared starter) the sweep timer has been released and every
\* session registration dropped when the process exits.
C22_ShutdownReleasesEverything ==
    \A p \in Procs : ShutDown(p) => (~proc[p].timer /\ proc[p].nclients = 0)

\* C23: for any interleaving of starter processes, at most one of them goes on
\* to start the server.
C23_OnlyOneInstance == Cardinality(StartedServers) <= 1

\* C24: startup tries the configured port, then 38101, 38102 and 38103 in that
\* order and binds the first one that is free; when the last one is in use, or
\* a bind fails for another reason, the process exits with status 1; no
\* process gets past startup without a bound port.
C24_StartupBindsOrAborts ==
    /\ [](\A p \in Procs :
            proc[p].pc \in {"listening", "ready"}
                => /\ proc[p].port = PortList[proc[p].tryIdx]
                   /\ proc[p].port \in {38100, 38101, 38102, 38103})
    /\ [][\A p \in Procs :
            (/\ proc[p].pc = "bind"
             /\ proc'[p] # proc[p]
             /\ proc'[p].exit \notin {"0", "signal"})
                => LET i == proc[p].tryIdx
                       port == <<38100, 38101, 38102, 38103>>[i]
                       busy == InUse(proc, foreign, port)
                   IN  /\ proc'[p].pc \in {"listening", "bind", "exited"}
                       /\ proc'[p].pc = "listening"
                            => ~busy /\ proc'[p].port = port
                       /\ proc'[p].pc = "bind"
                            => busy /\ i < 4 /\ proc'[p].tryIdx = i + 1
                       /\ proc'[p].pc = "exited" => proc'[p].exit = "1"
                       /\ (busy /\ i = 4) => proc'[p].pc = "exited"]_vars

\* one process listens on the first fallback port because 38100 was taken, and
\* another has exited with status 1 after finding all four ports in use
C24_Witness ==
    \E p, q \in Procs :
        /\ proc[p].pc \in {"listening", "ready"}
        /\ proc[p].port = 38101
        /\ 38100 \in foreign
        /\ proc[q].pc = "exited"
        /\ proc[q].exit = "1"
        /\ proc[q].tryIdx = 4
        /\ {38102, 38103} \subseteq foreign


----------------------------------------------------------------------------
(* The store with abandoned entries: records are admitted and never read or
   removed.  Time is bounded by MaxTime, so a record is admitted only while
   its expiry can still pass within the bound. *)

Abandon(el) ==
    /\ now + ttl < MaxTime
    /\ Add(el)

SweepNext ==
    \/ \E el \in {ElemA, ElemB, ElemC, ElemD} : Abandon(el)
    \/ Cleanup
    \/ Destroy
    \/ Tick

\* the clock advances, and the interval timer of the constructor fires for as
\* long as it has not been cleared
SweepSpec ==
    Init /\ [][SweepNext]_vars /\ WF_vars(Tick) /\ WF_vars(Cleanup)

\* C31: while the sweep timer keeps ticking, every admitted entry that is never
\* read or removed is eventually out of the store.
C31_AbandonedEntriesGo ==
    \A k \in IdKeys : (k \in Keys(elements)) ~> (k \notin Keys(elements))

\* a sweep has removed an entry that was never read
C31_Witness ==
    /\ last.op = "cleanup"
    /\ last.purged # {}
    /\ cleanupTimer


----------------------------------------------------------------------------
(* Further claims about the store *)

\* C32: a successful admit never decreases the number of stored entries, and
\* an admit of a record whose id is stored removes no other id from the store,
\* even when the store is at capacity.
C32_AdmitNeverShrinks ==
    [][(last'.op = "add" /\ last'.ret = "true")
          => /\ Len(elements') >= Len(elements)
             /\ last'.el.id.s \in Keys(elements)
                  => Keys(elements) \subseteq Keys(elements')]_vars


------------------------------------------------------------\* C34: after any sequence of admits, search(query) returns a list for every
\* string query, and neither it nor getAll or getStats raises.
C34_SearchIsTotal ==
    /\ last.op = "search" => last.ret = "list"
    /\ last.op \in {"getAll", "getStats"} => last.ret # "throw"

----------------
(* Further claims about the WebSocket server *)

\* C33: in the handling of a frame, every ELEMENT_ADDED notification belongs
\* to a submit that was admitted, carries that record's id and comes after the
\* ELEMENT_STORED ack to the originator for the same id, and when the ack and
\* the notifications are emitted the record is in the store.
C33_AckBeforeNotification ==
    [][ wsLast'.event = "message" =>
          LET sends == wsLast'.sends
              m == wsLast'.msg
          IN  \A j \in 1..Len(sends) :
                /\ sends[j].type = "ELEMENT_ADDED" =>
                      /\ Admits(elements, m, now)
                      /\ sends[j].data[1] = m.element.id
                      /\ sends[j].to # wsLast'.session
                      /\ \E i \in 1..(j - 1) :
                            /\ sends[i].type = "ELEMENT_STORED"
                            /\ sends[i].to = wsLast'.session
                            /\ sends[i].data[1] = m.element.id
                /\ sends[j].type \in {"ELEMENT_ADDED", "ELEMENT_STORED"} =>
                      /\ Admits(elements, m, now)
                      /\ sends[j].data[1].s \in Keys(elements')
      ]_vars

\* an admitted submit has been acknowledged and then notified to another
\* session, and its record is in the store
C33_Witness ==
    /\ wsLast.event = "message"
    /\ Len(wsLast.sends) >= 2
    /\ wsLast.sends[1].type = "ELEMENT_STORED"
    /\ wsLast.sends[2].type = "ELEMENT_ADDED"
    /\ wsLast.sends[2].data[1] = wsLast.sends[1].data[1]
    /\ wsLast.sends[1].data[1].s \in Keys(elements)


----------------------------------------------------------------------------
(* Further claims about the MCP surfaces *)

\* C35: for every id currently live in the store, reading element://<id>
\* returns the details of exactly that record, not another record's and not
\* the list.
C35_LiveRecordIsReadable ==
    [][ \A id \in McpIds :
          ( /\ mcpLast'.surface = "resource"
            /\ mcpLast'.arg = ElementUri(id)
            /\ get(elements, id, now).out # <<>> ) =>
              /\ mcpLast'.status = "ok"
              /\ mcpLast'.kind = "details"
              /\ mcpLast'.body = get(elements, id, now).out
      ]_vars


----------------------------------------------------------------------------
(* Claims about the server status *)

\* C36: the status reports running exactly when a listener is bound, the
\* number of registered sessions, and the port the listener is bound to, also
\* when that is a fallback port.
C36_StatusIsTruthful ==
    mcpLast.name = "get_server_status" =>
        LET p == mcpLast.arg[1]
            status == mcpLast.body[1]
        IN  /\ status.running <=> (proc[p].port # 0)
            /\ status.clients = proc[p].nclients
            /\ status.running => status.port = proc[p].port


----------------------------------------------------------------------------
(* The background worker as a state machine: one action per event.  A socket
   whose connection fails gets its error event and its close event in one
   task, the error first (WebSockets standard, "when the WebSocket connection
   is closed"); a socket the server closes is CLOSING from the start of the
   closing handshake until its close event.  pingServer and the server's
   messages other than ELEMENTS_LIST leave the worker's state as it is. *)

Worker == [w |-> worker, b |-> browser]

\* the sockets created so far are 1..Len(browser.sockets)
SocketIds == 1..MaxSockets
Created(s) == s <= Len(browser.sockets)

\* the requests on the wire that did not go out on socket s
WireWithout(wire, s) == SelectSeq(wire, LAMBDA q : q # s)

\* take x as the next state, unless it holds more sockets than MaxSockets
Becomes(x) ==
    /\ Len(x.b.sockets) <= MaxSockets
    /\ worker' = x.w
    /\ browser' = x.b
    /\ UNCHANGED <<storeVars, wsVars, mcpLast, procVars>>

\* the connection of socket s is established: onopen
SocketOpens(s) ==
    /\ Created(s)
    /\ browser.sockets[s] = "CONNECTING"
    /\ Becomes(handleWebSocketOpen([Worker EXCEPT !.b.sockets[s] = "OPEN"]))

\* the connection of socket s fails: onerror, then onclose with wasClean false
SocketFails(s) ==
    /\ Created(s)
    /\ browser.sockets[s] # "CLOSED"
    /\ Becomes(handleWebSocketClose(
                 handleWebSocketError(
                     [Worker EXCEPT !.b.sockets[s] = "CLOSED",
                                    !.b.wire = WireWithout(@, s)]),
                 FALSE))

\* the server starts the closing handshake on socket s
ClosingHandshake(s) ==
    /\ Created(s)
    /\ browser.sockets[s] = "OPEN"
    /\ Becomes([Worker EXCEPT !.b.sockets[s] = "CLOSING",
                              !.b.wire = WireWithout(@, s)])

\* the closing handshake of socket s is complete: onclose with wasClean true
SocketCloses(s) ==
    /\ Created(s)
    /\ browser.sockets[s] = "CLOSING"
    /\ Becomes(handleWebSocketClose([Worker EXCEPT !.b.sockets[s] = "CLOSED"],
                                    TRUE))

\* the reconnect timer with the given id fires
TimerFires(id) ==
    /\ \E t \in browser.timers : t.id = id
    /\ Becomes(connectToServer(
                 [Worker EXCEPT !.b.timers = {t \in @ : t.id # id}]))

\* a content script's message makes the worker send (ELEMENT_CAPTURED,
\* REMOVE_ELEMENT, CLEAR_ALL)
Send ==
    /\ browser.sockets # <<>>
    /\ Becomes(sendToServer(Worker, FALSE))

\* a content script asks for the captured elements
RequestElements ==
    /\ Len(browser.answers) < MaxRequests
    /\ Becomes(requestElements(Worker))

\* the server's ELEMENTS_LIST for the oldest request on the wire arrives on
\* the socket the request went out on
Reply ==
    /\ browser.wire # <<>>
    /\ browser.sockets[Head(browser.wire)] = "OPEN"
    /\ Becomes(handleWebSocketMessage([Worker EXCEPT !.b.wire = Tail(@)],
                                      "ELEMENTS_LIST"))

WorkerNext ==
    \/ \E s \in SocketIds : SocketOpens(s)
    \/ \E s \in SocketIds : SocketFails(s)
    \/ \E s \in SocketIds : ClosingHandshake(s)
    \/ \E s \in SocketIds : SocketCloses(s)
    \/ \E id \in 1..MaxSockets : TimerFires(id)
    \/ Send
    \/ RequestElements
    \/ Reply

WorkerSpec == Init /\ [][WorkerNext]_vars

\* a reply on the wire is delivered while its socket stays open
WorkerLiveSpec == Init /\ [][WorkerNext]_vars /\ WF_vars(Reply)


----------------------------------------------------------------------------
(* Claims about the background worker *)

\* the sockets the worker has created that are open or connecting
LiveSockets ==
    {s \in 1..Len(browser.sockets) : browser.sockets[s] \in {"CONNECTING", "OPEN"}}

\* in this step the close event of a socket older than the newest is handled
EarlierSocketCloses ==
    \E s \in 1..Len(browser.sockets) :
        /\ s < Len(browser.sockets)
        /\ browser.sockets[s] # "CLOSED"
        /\ browser'.sockets[s] = "CLOSED"

\* C37 as stated: whenever connectionStatus is 'connected' the ws variable
\* refers to the open socket, at most one socket created by the worker is
\* open or connecting at a time, and a close event of an earlier socket never
\* resets the state of a newer one.
C37_ConnectedMeansOpen ==
    /\ [](worker.connectionStatus = "connected"
            => worker.ws # 0 /\ browser.sockets[worker.ws] = "OPEN")
    /\ [](Cardinality(LiveSockets) <= 1)
    /\ [][EarlierSocketCloses
            => /\ worker'.ws = worker.ws
               /\ worker'.connectionStatus = worker.connectionStatus]_vars

\* C37 as amended: whenever connectionStatus is 'connected' the ws variable
\* refers to the newest socket, which is open or, between the start of the
\* server's closing handshake and its close event, closing; at most one socket
\* is open or connecting at a time, and a close event of an earlier socket
\* never resets the state of a newer one.
C37_ConnectedMeansOpenOrClosing ==
    /\ [](worker.connectionStatus = "connected"
            => /\ worker.ws = Len(browser.sockets)
               /\ browser.sockets[worker.ws] \in {"OPEN", "CLOSING"})
    /\ [](Cardinality(LiveSockets) <= 1)
    /\ [][EarlierSocketCloses
            => /\ worker'.ws = worker.ws
               /\ worker'.connectionStatus = worker.connectionStatus]_vars

\* after a reconnect the worker is connected on its second socket, on which
\* the server has started the closing handshake
C37_Witness ==
    /\ worker.connectionStatus = "connected"
    /\ worker.ws = 2
    /\ browser.sockets = <<"CLOSED", "CLOSING">>

\* C38: reconnectAttempts stays within 0..MAX_RECONNECT_ATTEMPTS, the n-th
\* scheduled attempt is delayed by n times RECONNECT_DELAY, at most one
\* reconnect timer is pending at any time, and the counter returns to 0 only
\* when a socket opens.
C38_ReconnectionIsBounded ==
    /\ [](worker.reconnectAttempts \in 0..5)
    /\ [](Cardinality(browser.timers) <= 1)
    /\ [][\A t \in browser'.timers \ browser.timers :
            /\ worker'.reconnectAttempts = worker.reconnectAttempts + 1
            /\ t.delay = worker'.reconnectAttempts * 3000]_vars
    /\ [][(worker.reconnectAttempts # 0 /\ worker'.reconnectAttempts = 0)
            => \E s \in 1..Len(browser.sockets) :
                  /\ browser.sockets[s] = "CONNECTING"
                  /\ browser'.sockets[s] = "OPEN"]_vars

\* five scheduled attempts have failed and the sixth failure has scheduled
\* nothing
C38_Witness ==
    /\ worker.reconnectAttempts = 5
    /\ browser.timers = {}
    /\ Len(browser.sockets) = 6
    /\ worker.connectionStatus = "disconnected"

\* the r-th requestElements call has been made / its callback has been called
Requested(r) == Len(browser.answers) >= r
Answered(r) == Requested(r) /\ Len(browser.answers[r]) = 1

\* C39: every requestElements callback is eventually answered, and no
\* callback is answered more than once: at once with an empty list when the
\* socket is not open, with the list when ELEMENTS_LIST arrives, also when the
\* socket closes before the reply.
C39_EveryRequestAnswered ==
    /\ [](\A r \in 1..Len(browser.answers) : Len(browser.answers[r]) <= 1)
    /\ \A r \in 1..MaxRequests :
          Requested(r) ~> Answered(r)


----------------------------------------------------------------------------
(* The sanitizer applied to its own output: a producer submits again the
   record the store returned to it *)

Resubmit ==
    LET el == elements[1].data
        r == add(elements, el, now)
        san == sanitizeElement(el)
    IN  /\ Running
        /\ Len(elements) = 1
        /\ elements' = r.elements
        /\ admitOrder' = IF r.ret = "true" THEN <<el.id.s>> ELSE admitOrder
        /\ last' = [NoCall EXCEPT !.op = "add", !.el = el, !.ret = r.ret,
                                  !.caller = <<san.caller>>,
                                  !.shares = san.shares]
        /\ UNCHANGED <<cleanupTimer, now, wsVars, mcpLast, procVars, extVars>>

ResubmitNext ==
    \/ \E el \in SanInputs : Submit(el)
    \/ Resubmit

ResubmitSpec == Init /\ [][ResubmitNext]_vars

\* C40: the sanitizer's truncation, media dropping and attribute redaction
\* leave a record that is already their output as it is: the record stored
\* when a stored record is submitted again equals the stored record.
C40_SanitizerIsIdempotent ==
    [][(elements # <<>> /\ last'.op = "add")
          => /\ last'.ret = "true"
             /\ Len(elements') = 1
             /\ elements'[1].data = elements[1].data]_vars

\* a record whose body was cut and marked, whose screenshot was dropped and
\* whose attribute was redacted has been submitted again
C40_Witness ==
    /\ elements # <<>>
    /\ last.op = "add"
    /\ last.el = Stored
    /\ Stored.html.s[Len(Stored.html.s)] = TRUNCATED
    /\ Stored.text.t = "string"
    /\ Len(Stored.text.s) = MAX_TEXT_SIZE + 1
    /\ Stored.screenshotTruncated
    /\ \E a \in Stored.attributes : a.v = REDACTED

=============================================================================
